---- MODULE Spec2Model ----
(***************************************************************************)
(* admin-file: the staged upload and finalisation pipeline of server.js,   *)
(* with the directory operations and listings that share its filesystem.   *)
(*                                                                         *)
(* A string is a sequence of UTF-16 code units (naturals); a path is a     *)
(* sequence of path components from the filesystem root.  MIME types are   *)
(* only ever compared for equality and stay TLA+ strings.                  *)
(***************************************************************************)
EXTENDS Integers, Sequences, FiniteSets, TLC

\* ---------------------------------------------------------------- bounds
\* Requests the server receives in one run; all of them may overlap.
MaxReq == 2
\* Milliseconds the wall clock may advance during one run.
MaxClock == 1
\* Chunks the body of one upload arrives in.
ChunksPerUpload == 2
\* The requests one address makes before the model stops counting.
MaxHits == 6

\* ------------------------------------------------------------ strings
Max(S) == CHOOSE x \in S : \A y \in S : y <= x

\* Indices of the code unit c in the string s.
IndicesOf(s, c) == {i \in 1..Len(s) : s[i] = c}

\* String.prototype.toLowerCase on code units below 256 (ASCII A-Z and the
\* Latin-1 capitals; 215 is the multiplication sign and has no lower case).
LowerUnit(c) ==
  IF (c >= 65 /\ c <= 90) \/ (c >= 192 /\ c <= 222 /\ c # 215) THEN c + 32 ELSE c

toLowerCase(s) == [i \in 1..Len(s) |-> LowerUnit(s[i])]

\* Decimal rendering of a non-negative integer, as a template literal does.
RECURSIVE DecStr(_)
DecStr(n) == IF n < 10 THEN <<48 + n>> ELSE DecStr(n \div 10) \o <<48 + (n % 10)>>

\* The last path component of s, trailing slashes dropped: where
\* path.extname and path.basename look.  [start, end] are 1-based, inclusive.
ComponentEnd(s) ==
  LET nonSlash == {i \in 1..Len(s) : s[i] # 47} IN
  IF nonSlash = {} THEN 0 ELSE Max(nonSlash)

ComponentStart(s) ==
  LET e == ComponentEnd(s)
      slashes == {i \in 1..e : s[i] = 47} IN
  IF slashes = {} THEN 1 ELSE Max(slashes) + 1

\* path.extname (posix): from the last dot of the last component to its end;
\* empty when there is no dot, when the dot opens the component, or when the
\* component is exactly "..".
extname(s) ==
  LET e == ComponentEnd(s)
      b == ComponentStart(s)
      dots == {i \in b..e : s[i] = 46}
      startDot == IF dots = {} THEN 0 ELSE Max(dots) IN
  IF e = 0 \/ startDot = 0 \/ startDot = b
       \/ (startDot = e /\ startDot = b + 1 /\ s[b] = 46)
    THEN <<>>
    ELSE SubSeq(s, startDot, e)

\* path.basename(s, ext) (posix): the last component, without the suffix ext
\* unless the component is ext itself.
basename(s, ext) ==
  LET e == ComponentEnd(s)
      b == ComponentStart(s)
      comp == IF e = 0 THEN <<>> ELSE SubSeq(s, b, e)
      n == Len(comp)
      k == Len(ext) IN
  IF k > 0 /\ k < n /\ SubSeq(comp, n - k + 1, n) = ext
    THEN SubSeq(comp, 1, n - k)
    ELSE comp

\* ----------------------------------------------------------- encoding
\* Buffer.from(s, "latin1"): the low byte of every code unit.
Latin1Bytes(s) == [i \in 1..Len(s) |-> s[i] % 256]

IsCont(b) == b >= 128 /\ b <= 191

\* Number of continuation bytes a UTF-8 lead byte announces (0 for ASCII,
\* -1 for a byte that cannot start a sequence).
Utf8Need(b) ==
  IF b <= 127 THEN 0
  ELSE IF b >= 194 /\ b <= 223 THEN 1
  ELSE IF b >= 224 /\ b <= 239 THEN 2
  ELSE IF b >= 240 /\ b <= 244 THEN 3
  ELSE -1

\* Bounds of the first continuation byte after the lead byte b.
Utf8Lower(b) == IF b = 224 THEN 160 ELSE IF b = 240 THEN 144 ELSE 128
Utf8Upper(b) == IF b = 237 THEN 159 ELSE IF b = 244 THEN 143 ELSE 191

\* The code units of one code point.
CodeUnits(cp) ==
  IF cp < 65536 THEN <<cp>>
  ELSE <<55296 + ((cp - 65536) \div 1024), 56320 + ((cp - 65536) % 1024)>>

\* buf.toString("utf8"): UTF-8 decoding that never fails; every maximal
\* ill-formed subsequence becomes one U+FFFD (65533).
RECURSIVE Utf8Decode(_, _)
Utf8Decode(bytes, i) ==
  IF i > Len(bytes) THEN <<>>
  ELSE
    LET b == bytes[i]
        need == Utf8Need(b) IN
    IF need = 0 THEN <<b>> \o Utf8Decode(bytes, i + 1)
    ELSE IF need = -1 THEN <<65533>> \o Utf8Decode(bytes, i + 1)
    ELSE
      LET ok1 == i + 1 <= Len(bytes) /\ bytes[i + 1] >= Utf8Lower(b)
                   /\ bytes[i + 1] <= Utf8Upper(b)
          ok2 == ok1 /\ i + 2 <= Len(bytes) /\ IsCont(bytes[i + 2])
          ok3 == ok2 /\ i + 3 <= Len(bytes) /\ IsCont(bytes[i + 3]) IN
      IF ~ok1 THEN <<65533>> \o Utf8Decode(bytes, i + 1)
      ELSE IF need = 1
        THEN CodeUnits((b - 192) * 64 + (bytes[i + 1] - 128))
               \o Utf8Decode(bytes, i + 2)
      ELSE IF ~ok2 THEN <<65533>> \o Utf8Decode(bytes, i + 2)
      ELSE IF need = 2
        THEN CodeUnits((b - 224) * 4096 + (bytes[i + 1] - 128) * 64
                         + (bytes[i + 2] - 128))
               \o Utf8Decode(bytes, i + 3)
      ELSE IF ~ok3 THEN <<65533>> \o Utf8Decode(bytes, i + 3)
      ELSE CodeUnits((b - 240) * 262144 + (bytes[i + 1] - 128) * 4096
                       + (bytes[i + 2] - 128) * 64 + (bytes[i + 3] - 128))
             \o Utf8Decode(bytes, i + 4)

\* fixFileNameEncoding without the re-decoding: the name is left as declared.
fixFileNameEncodingAsDeclared(originalName) == originalName

\* fixFileNameEncoding that decodes from the second byte on.
fixFileNameEncodingOffByOne(originalName) == Utf8Decode(Latin1Bytes(originalName), 2)

\* A value that is not a string (undefined) is written as <<-1>>.
IsString(x) == \A i \in 1..Len(x) : x[i] >= 0

\* fixFileNameEncoding: for a string neither Buffer.from(string, "latin1")
\* nor toString throws; for any other value Buffer.from throws a TypeError,
\* which the catch answers with the argument itself.
fixFileNameEncoding(originalName) ==
  IF IsString(originalName) THEN Utf8Decode(Latin1Bytes(originalName), 1)
  ELSE originalName

\* ------------------------------------------------------ URI components
\* The characters encodeURIComponent leaves alone: A-Z a-z 0-9 - _ . ! ~ * ' ( )
Unreserved(c) ==
  \/ c \in 48..57 \/ c \in 65..90 \/ c \in 97..122
  \/ c \in {45, 95, 46, 33, 126, 42, 39, 40, 41}

HexDigit(n) == IF n < 10 THEN 48 + n ELSE 55 + n
HexValue(c) ==
  IF c \in 48..57 THEN c - 48
  ELSE IF c \in 65..70 THEN c - 55
  ELSE IF c \in 97..102 THEN c - 87
  ELSE -1
PercentByte(b) == <<37, HexDigit(b \div 16), HexDigit(b % 16)>>

\* The UTF-8 bytes of a code point.
Utf8Bytes(cp) ==
  IF cp < 128 THEN <<cp>>
  ELSE IF cp < 2048 THEN <<192 + (cp \div 64), 128 + (cp % 64)>>
  ELSE IF cp < 65536
    THEN <<224 + (cp \div 4096), 128 + ((cp \div 64) % 64), 128 + (cp % 64)>>
  ELSE <<240 + (cp \div 262144), 128 + ((cp \div 4096) % 64),
         128 + ((cp \div 64) % 64), 128 + (cp % 64)>>

RECURSIVE PercentBytes(_)
PercentBytes(bytes) ==
  IF bytes = <<>> THEN <<>> ELSE PercentByte(Head(bytes)) \o PercentBytes(Tail(bytes))

\* encodeURIComponent(s) for a well-formed string: every character but the
\* unreserved ones becomes the %XX of its UTF-8 bytes, a surrogate pair as
\* one code point.  (A lone surrogate raises URIError; the strings of a
\* request are decoded from bytes and hold none.)
RECURSIVE encodeURIComponent(_)
encodeURIComponent(s) ==
  IF s = <<>> THEN <<>>
  ELSE
    LET c == Head(s) IN
    IF Unreserved(c) THEN <<c>> \o encodeURIComponent(Tail(s))
    ELSE IF c \in 55296..56319 /\ Len(s) >= 2 /\ s[2] \in 56320..57343
      THEN PercentBytes(Utf8Bytes(65536 + (c - 55296) * 1024 + (s[2] - 56320)))
             \o encodeURIComponent(SubSeq(s, 3, Len(s)))
    ELSE PercentBytes(Utf8Bytes(c)) \o encodeURIComponent(Tail(s))

\* The bytes a percent-encoded path stands for: %XX is one byte, any other
\* character its own code.
RECURSIVE UnescapeBytes(_)
UnescapeBytes(s) ==
  IF s = <<>> THEN <<>>
  ELSE IF /\ Head(s) = 37 /\ Len(s) >= 3
          /\ HexValue(s[2]) >= 0 /\ HexValue(s[3]) >= 0
    THEN <<HexValue(s[2]) * 16 + HexValue(s[3])>> \o UnescapeBytes(SubSeq(s, 4, Len(s)))
  ELSE <<Head(s)>> \o UnescapeBytes(Tail(s))

\* decodeURIComponent(s) on the output of encodeURIComponent.
decodeURIComponent(s) == Utf8Decode(UnescapeBytes(s), 1)

\* -------------------------------------------------------------- paths
\* The components of a string split at "/", empty components dropped.
RECURSIVE SplitSlash(_)
SplitSlash(s) ==
  LET slashes == IndicesOf(s, 47) IN
  IF s = <<>> THEN <<>>
  ELSE IF slashes = {} THEN <<s>>
  ELSE
    LET k == CHOOSE i \in slashes : \A j \in slashes : i <= j
        head == SubSeq(s, 1, k - 1)
        rest == SplitSlash(SubSeq(s, k + 1, Len(s))) IN
    IF head = <<>> THEN rest ELSE <<head>> \o rest

\* path.normalize on an absolute path: "." is dropped, ".." removes the
\* component before it and stays at the root.
RECURSIVE Normalize(_, _)
Normalize(done, todo) ==
  IF todo = <<>> THEN done
  ELSE
    LET c == Head(todo) IN
    IF c = <<46>> THEN Normalize(done, Tail(todo))
    ELSE IF c = <<46, 46>>
      THEN Normalize(IF done = <<>> THEN <<>> ELSE SubSeq(done, 1, Len(done) - 1),
                     Tail(todo))
    ELSE Normalize(Append(done, c), Tail(todo))

\* path.join(dir, s) for an absolute directory dir and a string s.
PathJoin(dir, s) == Normalize(dir, SplitSlash(s))

Parent(p) == SubSeq(p, 1, Len(p) - 1)

IsPrefix(p, q) == Len(p) <= Len(q) /\ SubSeq(q, 1, Len(p)) = p

\* __dirname: the directory server.js is started from ("/srv").
dirname == << <<115, 114, 118>> >>
\* "uploads" and "temp"
baseUploadDir == PathJoin(dirname, <<117, 112, 108, 111, 97, 100, 115>>)
tempUploadDir == PathJoin(baseUploadDir, <<116, 101, 109, 112>>)
\* path.join(baseUploadDir, "blog", "avatars")
avatarUploadDir ==
  PathJoin(PathJoin(baseUploadDir, <<98, 108, 111, 103>>),
           <<97, 118, 97, 116, 97, 114, 115>>)

fileCategories ==
  <<
    [category |-> <<105, 109, 97, 103, 101, 115>>,  \* "images"
     types |-> {
         "image/jpeg",
         "image/png",
         "image/gif",
         "image/bmp",
         "image/svg+xml",
         "image/webp",
         "image/avif",
         "image/apng"}],
    [category |-> <<118, 105, 100, 101, 111, 115>>,  \* "videos"
     types |-> {
         "video/mp4",
         "video/mpeg",
         "video/quicktime",
         "video/x-msvideo",
         "video/x-matroska",
         "video/webm"}],
    [category |-> <<97, 117, 100, 105, 111, 115>>,  \* "audios"
     types |-> {
         "audio/mpeg",
         "audio/wav",
         "audio/ogg",
         "audio/flac",
         "audio/aac",
         "audio/x-wav"}],
    [category |-> <<99, 111, 100, 101, 115>>,  \* "codes"
     types |-> {
         "text/javascript",
         "application/javascript",
         "application/x-javascript",
         "text/x-python",
         "application/x-python",
         "text/x-php",
         "application/x-php",
         "text/x-java-source",
         "application/x-java-source",
         "text/x-c",
         "text/x-c++",
         "application/x-c",
         "application/x-c++",
         "text/x-ruby",
         "application/x-ruby",
         "text/x-go",
         "application/x-go",
         "text/typescript",
         "application/typescript",
         "text/html",
         "text/css",
         "text/xml",
         "application/json",
         "application/x-yaml",
         "text/yaml",
         "application/sql",
         "text/x-sql",
         "text/x-shellscript"}],
    [category |-> <<100, 111, 99, 117, 109, 101, 110, 116, 115>>,  \* "documents"
     types |-> {
         "text/plain",
         "text/markdown",
         "application/pdf",
         "application/msword",
         "application/vnd.openxmlformats-officedocument.wordprocessingml.document",
         "application/vnd.ms-powerpoint",
         "application/vnd.openxmlformats-officedocument.presentationml.presentation",
         "application/vnd.ms-excel",
         "application/vnd.openxmlformats-officedocument.spreadsheetml.sheet",
         "application/rtf",
         "application/vnd.oasis.opendocument.text",
         "application/vnd.oasis.opendocument.spreadsheet",
         "application/vnd.oasis.opendocument.presentation"}],
    [category |-> <<97, 114, 99, 104, 105, 118, 101, 115>>,  \* "archives"
     types |-> {
         "application/zip",
         "application/x-rar-compressed",
         "application/x-7z-compressed",
         "application/x-tar",
         "application/gzip",
         "application/x-gzip"}],
    [category |-> <<102, 111, 110, 116, 115>>,  \* "fonts"
     types |-> {
         "font/ttf",
         "font/otf",
         "font/woff",
         "font/woff2",
         "application/x-font-ttf",
         "application/x-font-otf"}]
  >>

extensionToCategory ==
  {
    <<<<46, 106, 112, 103>>, <<105, 109, 97, 103, 101, 115>>>>,  \* ".jpg": "images"
    <<<<46, 106, 112, 101, 103>>, <<105, 109, 97, 103, 101, 115>>>>,  \* ".jpeg": "images"
    <<<<46, 112, 110, 103>>, <<105, 109, 97, 103, 101, 115>>>>,  \* ".png": "images"
    <<<<46, 103, 105, 102>>, <<105, 109, 97, 103, 101, 115>>>>,  \* ".gif": "images"
    <<<<46, 98, 109, 112>>, <<105, 109, 97, 103, 101, 115>>>>,  \* ".bmp": "images"
    <<<<46, 115, 118, 103>>, <<105, 109, 97, 103, 101, 115>>>>,  \* ".svg": "images"
    <<<<46, 119, 101, 98, 112>>, <<105, 109, 97, 103, 101, 115>>>>,  \* ".webp": "images"
    <<<<46, 97, 118, 105, 102>>, <<105, 109, 97, 103, 101, 115>>>>,  \* ".avif": "images"
    <<<<46, 97, 112, 110, 103>>, <<105, 109, 97, 103, 101, 115>>>>,  \* ".apng": "images"
    <<<<46, 109, 112, 52>>, <<118, 105, 100, 101, 111, 115>>>>,  \* ".mp4": "videos"
    <<<<46, 109, 112, 101, 103>>, <<118, 105, 100, 101, 111, 115>>>>,  \* ".mpeg": "videos"
    <<<<46, 109, 111, 118>>, <<118, 105, 100, 101, 111, 115>>>>,  \* ".mov": "videos"
    <<<<46, 97, 118, 105>>, <<118, 105, 100, 101, 111, 115>>>>,  \* ".avi": "videos"
    <<<<46, 109, 107, 118>>, <<118, 105, 100, 101, 111, 115>>>>,  \* ".mkv": "videos"
    <<<<46, 119, 101, 98, 109>>, <<118, 105, 100, 101, 111, 115>>>>,  \* ".webm": "videos"
    <<<<46, 109, 112, 51>>, <<97, 117, 100, 105, 111, 115>>>>,  \* ".mp3": "audios"
    <<<<46, 119, 97, 118>>, <<97, 117, 100, 105, 111, 115>>>>,  \* ".wav": "audios"
    <<<<46, 111, 103, 103>>, <<97, 117, 100, 105, 111, 115>>>>,  \* ".ogg": "audios"
    <<<<46, 102, 108, 97, 99>>, <<97, 117, 100, 105, 111, 115>>>>,  \* ".flac": "audios"
    <<<<46, 97, 97, 99>>, <<97, 117, 100, 105, 111, 115>>>>,  \* ".aac": "audios"
    <<<<46, 106, 115>>, <<99, 111, 100, 101, 115>>>>,  \* ".js": "codes"
    <<<<46, 109, 106, 115>>, <<99, 111, 100, 101, 115>>>>,  \* ".mjs": "codes"
    <<<<46, 112, 121>>, <<99, 111, 100, 101, 115>>>>,  \* ".py": "codes"
    <<<<46, 112, 104, 112>>, <<99, 111, 100, 101, 115>>>>,  \* ".php": "codes"
    <<<<46, 106, 97, 118, 97>>, <<99, 111, 100, 101, 115>>>>,  \* ".java": "codes"
    <<<<46, 99>>, <<99, 111, 100, 101, 115>>>>,  \* ".c": "codes"
    <<<<46, 99, 112, 112>>, <<99, 111, 100, 101, 115>>>>,  \* ".cpp": "codes"
    <<<<46, 99, 99>>, <<99, 111, 100, 101, 115>>>>,  \* ".cc": "codes"
    <<<<46, 104>>, <<99, 111, 100, 101, 115>>>>,  \* ".h": "codes"
    <<<<46, 104, 112, 112>>, <<99, 111, 100, 101, 115>>>>,  \* ".hpp": "codes"
    <<<<46, 114, 98>>, <<99, 111, 100, 101, 115>>>>,  \* ".rb": "codes"
    <<<<46, 103, 111>>, <<99, 111, 100, 101, 115>>>>,  \* ".go": "codes"
    <<<<46, 116, 115>>, <<99, 111, 100, 101, 115>>>>,  \* ".ts": "codes"
    <<<<46, 116, 115, 120>>, <<99, 111, 100, 101, 115>>>>,  \* ".tsx": "codes"
    <<<<46, 104, 116, 109, 108>>, <<99, 111, 100, 101, 115>>>>,  \* ".html": "codes"
    <<<<46, 104, 116, 109>>, <<99, 111, 100, 101, 115>>>>,  \* ".htm": "codes"
    <<<<46, 99, 115, 115>>, <<99, 111, 100, 101, 115>>>>,  \* ".css": "codes"
    <<<<46, 115, 99, 115, 115>>, <<99, 111, 100, 101, 115>>>>,  \* ".scss": "codes"
    <<<<46, 108, 101, 115, 115>>, <<99, 111, 100, 101, 115>>>>,  \* ".less": "codes"
    <<<<46, 106, 115, 111, 110>>, <<99, 111, 100, 101, 115>>>>,  \* ".json": "codes"
    <<<<46, 120, 109, 108>>, <<99, 111, 100, 101, 115>>>>,  \* ".xml": "codes"
    <<<<46, 121, 97, 109, 108>>, <<99, 111, 100, 101, 115>>>>,  \* ".yaml": "codes"
    <<<<46, 121, 109, 108>>, <<99, 111, 100, 101, 115>>>>,  \* ".yml": "codes"
    <<<<46, 116, 111, 109, 108>>, <<99, 111, 100, 101, 115>>>>,  \* ".toml": "codes"
    <<<<46, 105, 110, 105>>, <<99, 111, 100, 101, 115>>>>,  \* ".ini": "codes"
    <<<<46, 99, 111, 110, 102>>, <<99, 111, 100, 101, 115>>>>,  \* ".conf": "codes"
    <<<<46, 115, 113, 108>>, <<99, 111, 100, 101, 115>>>>,  \* ".sql": "codes"
    <<<<46, 115, 104>>, <<99, 111, 100, 101, 115>>>>,  \* ".sh": "codes"
    <<<<46, 98, 97, 115, 104>>, <<99, 111, 100, 101, 115>>>>,  \* ".bash": "codes"
    <<<<46, 122, 115, 104>>, <<99, 111, 100, 101, 115>>>>,  \* ".zsh": "codes"
    <<<<46, 115, 119, 105, 102, 116>>, <<99, 111, 100, 101, 115>>>>,  \* ".swift": "codes"
    <<<<46, 107, 116>>, <<99, 111, 100, 101, 115>>>>,  \* ".kt": "codes"
    <<<<46, 114, 115>>, <<99, 111, 100, 101, 115>>>>,  \* ".rs": "codes"
    <<<<46, 100, 97, 114, 116>>, <<99, 111, 100, 101, 115>>>>,  \* ".dart": "codes"
    <<<<46, 118, 117, 101>>, <<99, 111, 100, 101, 115>>>>,  \* ".vue": "codes"
    <<<<46, 115, 118, 101, 108, 116, 101>>, <<99, 111, 100, 101, 115>>>>,  \* ".svelte": "codes"
    <<<<46, 116, 120, 116>>, <<100, 111, 99, 117, 109, 101, 110, 116, 115>>>>,  \* ".txt": "documents"
    <<<<46, 109, 100>>, <<100, 111, 99, 117, 109, 101, 110, 116, 115>>>>,  \* ".md": "documents"
    <<<<46, 112, 100, 102>>, <<100, 111, 99, 117, 109, 101, 110, 116, 115>>>>,  \* ".pdf": "documents"
    <<<<46, 100, 111, 99>>, <<100, 111, 99, 117, 109, 101, 110, 116, 115>>>>,  \* ".doc": "documents"
    <<<<46, 100, 111, 99, 120>>, <<100, 111, 99, 117, 109, 101, 110, 116, 115>>>>,  \* ".docx": "documents"
    <<<<46, 112, 112, 116>>, <<100, 111, 99, 117, 109, 101, 110, 116, 115>>>>,  \* ".ppt": "documents"
    <<<<46, 112, 112, 116, 120>>, <<100, 111, 99, 117, 109, 101, 110, 116, 115>>>>,  \* ".pptx": "documents"
    <<<<46, 120, 108, 115>>, <<100, 111, 99, 117, 109, 101, 110, 116, 115>>>>,  \* ".xls": "documents"
    <<<<46, 120, 108, 115, 120>>, <<100, 111, 99, 117, 109, 101, 110, 116, 115>>>>,  \* ".xlsx": "documents"
    <<<<46, 114, 116, 102>>, <<100, 111, 99, 117, 109, 101, 110, 116, 115>>>>,  \* ".rtf": "documents"
    <<<<46, 111, 100, 116>>, <<100, 111, 99, 117, 109, 101, 110, 116, 115>>>>,  \* ".odt": "documents"
    <<<<46, 111, 100, 115>>, <<100, 111, 99, 117, 109, 101, 110, 116, 115>>>>,  \* ".ods": "documents"
    <<<<46, 111, 100, 112>>, <<100, 111, 99, 117, 109, 101, 110, 116, 115>>>>,  \* ".odp": "documents"
    <<<<46, 122, 105, 112>>, <<97, 114, 99, 104, 105, 118, 101, 115>>>>,  \* ".zip": "archives"
    <<<<46, 114, 97, 114>>, <<97, 114, 99, 104, 105, 118, 101, 115>>>>,  \* ".rar": "archives"
    <<<<46, 55, 122>>, <<97, 114, 99, 104, 105, 118, 101, 115>>>>,  \* ".7z": "archives"
    <<<<46, 116, 97, 114>>, <<97, 114, 99, 104, 105, 118, 101, 115>>>>,  \* ".tar": "archives"
    <<<<46, 103, 122>>, <<97, 114, 99, 104, 105, 118, 101, 115>>>>,  \* ".gz": "archives"
    <<<<46, 116, 103, 122>>, <<97, 114, 99, 104, 105, 118, 101, 115>>>>,  \* ".tgz": "archives"
    <<<<46, 116, 116, 102>>, <<102, 111, 110, 116, 115>>>>,  \* ".ttf": "fonts"
    <<<<46, 111, 116, 102>>, <<102, 111, 110, 116, 115>>>>,  \* ".otf": "fonts"
    <<<<46, 119, 111, 102, 102>>, <<102, 111, 110, 116, 115>>>>,  \* ".woff": "fonts"
    <<<<46, 119, 111, 102, 102, 50>>, <<102, 111, 110, 116, 115>>>>,  \* ".woff2": "fonts"
    <<<<46, 101, 111, 116>>, <<102, 111, 110, 116, 115>>>>  \* ".eot": "fonts"
  }

\* getFileCategory without its last line: nothing is returned when neither
\* table has an entry.
getFileCategoryNoDefault(mimetype, filename) ==
  LET hits == {i \in 1..Len(fileCategories) : mimetype \in fileCategories[i].types}
      ext == toLowerCase(extname(filename))
      rows == {row \in extensionToCategory : row[1] = ext} IN
  IF hits # {} THEN fileCategories[CHOOSE i \in hits : \A j \in hits : i <= j].category
  ELSE IF rows # {} THEN (CHOOSE row \in rows : TRUE)[2]
  ELSE <<>>

\* getFileCategory with the two lookups in the other order: the extension
\* is asked first.
getFileCategoryExtFirst(mimetype, filename) ==
  LET hits == {i \in 1..Len(fileCategories) : mimetype \in fileCategories[i].types}
      ext == toLowerCase(extname(filename))
      rows == {row \in extensionToCategory : row[1] = ext} IN
  IF rows # {} THEN (CHOOSE row \in rows : TRUE)[2]
  ELSE IF hits # {} THEN fileCategories[CHOOSE i \in hits : \A j \in hits : i <= j].category
  ELSE <<111, 116, 104, 101, 114, 115>>

\* getFileCategory: the first category whose MIME list holds the type, else
\* the category of the lower-cased extension, else "others".
getFileCategory(mimetype, filename) ==
  LET hits == {i \in 1..Len(fileCategories) : mimetype \in fileCategories[i].types}
      ext == toLowerCase(extname(filename))
      rows == {row \in extensionToCategory : row[1] = ext} IN
  IF hits # {} THEN fileCategories[CHOOSE i \in hits : \A j \in hits : i <= j].category
  ELSE IF rows # {} THEN (CHOOSE row \in rows : TRUE)[2]
  ELSE <<111, 116, 104, 101, 114, 115>>  \* "others"

\* getFullStoragePath with the first two tests swapped: the namespace wins.
getFullStoragePathNamespaceFirst(category, namespace, mimetype, filename) ==
  IF namespace # <<>> THEN PathJoin(baseUploadDir, namespace)
  ELSE IF category # <<>> THEN PathJoin(baseUploadDir, category)
  ELSE PathJoin(baseUploadDir, getFileCategory(mimetype, filename))

\* getFullStoragePath: category, else namespace, else the detected category.
getFullStoragePath(category, namespace, mimetype, filename) ==
  IF category # <<>> THEN PathJoin(baseUploadDir, category)
  ELSE IF namespace # <<>> THEN PathJoin(baseUploadDir, namespace)
  ELSE PathJoin(baseUploadDir, getFileCategory(mimetype, filename))


\* --------------------------------------------------------- filesystem
\* The filesystem maps every existing path to its node.  A file keeps the
\* inode it was created with through renames; its data is the sequence of
\* chunks written so far.
DirNode == [kind |-> "dir", ino |-> 0, data |-> <<>>]
FileNode(ino, data) == [kind |-> "file", ino |-> ino, data |-> data]

\* A position of a file no write has reached yet.
Hole == <<0, 0>>

Exists(f, p) == p \in DOMAIN f
IsDir(f, p) == p \in DOMAIN f /\ f[p].kind = "dir"
IsFile(f, p) == p \in DOMAIN f /\ f[p].kind = "file"
Children(f, p) == {q \in DOMAIN f : Len(q) = Len(p) + 1 /\ Parent(q) = p}

\* fs.mkdir(p, {recursive: true}): fails when a component of p is a file.
\* A mkdir without the recursive option: an existing path is an error.
MkdirOkExclusive(f, p) == ~Exists(f, p) /\ IsDir(f, Parent(p))
MkdirOk(f, p) == \A k \in 0..Len(p) : ~IsFile(f, SubSeq(p, 1, k))
MkdirP(f, p) ==
  LET new == {SubSeq(p, 1, k) : k \in 0..Len(p)} \ DOMAIN f IN
  [q \in DOMAIN f \cup new |-> IF q \in new THEN DirNode ELSE f[q]]

\* fs.rename(src, dst): atomic; replaces a file (or an empty directory, when
\* src is a directory) at dst.
RenameOk(f, src, dst) ==
  /\ Exists(f, src)
  /\ IsDir(f, Parent(dst))
  /\ ~(IsPrefix(src, dst) /\ src # dst)
  /\ Exists(f, dst) /\ dst # src =>
       IF IsFile(f, src) THEN IsFile(f, dst)
       ELSE IsDir(f, dst) /\ Children(f, dst) = {}
Rename(f, src, dst) ==
  IF src = dst THEN f
  ELSE
    LET moved == {q \in DOMAIN f : IsPrefix(src, q)}
        Dest(q) == dst \o SubSeq(q, Len(src) + 1, Len(q))
        kept == (DOMAIN f \ moved) \ {dst} IN
    [q \in kept \cup {Dest(m) : m \in moved} |->
       IF q \in kept THEN f[q]
       ELSE f[CHOOSE m \in moved : Dest(m) = q]]

\* fs.unlink(p): removes a file.
UnlinkOk(f, p) == IsFile(f, p)
\* An unlink that takes the other files of the directory with it.
UnlinkWithSiblings(f, p) ==
  [q \in {x \in DOMAIN f : ~(IsFile(f, x) /\ Parent(x) = Parent(p))} |-> f[q]]
Unlink(f, p) == [q \in DOMAIN f \ {p} |-> f[q]]

\* fs.rmdir(p): removes an empty directory.
\* An rmdir that does not mind the entries of the directory.
RmdirOkAny(f, p) == IsDir(f, p)
RmdirOk(f, p) == IsDir(f, p) /\ Children(f, p) = {}
Rmdir(f, p) == [q \in DOMAIN f \ {p} |-> f[q]]

\* fs.createWriteStream(p) opening with flag "w": creates the file, or
\* truncates the file that is there and keeps its inode.
OpenOk(f, p) == IsDir(f, Parent(p)) /\ ~IsDir(f, p)
OpenTruncate(f, p, ino) ==
  [q \in DOMAIN f \cup {p} |->
     IF q = p THEN FileNode(IF IsFile(f, p) THEN f[p].ino ELSE ino, <<>>) ELSE f[q]]
OpenedIno(f, p, ino) == IF IsFile(f, p) THEN f[p].ino ELSE ino

\* A write of one chunk through a descriptor at the descriptor's own offset:
\* it lands in the file that holds the inode, wherever that file is linked.
WriteAt(data, pos, chunk) ==
  [i \in 1..(IF pos > Len(data) THEN pos ELSE Len(data)) |->
     IF i = pos THEN chunk ELSE IF i <= Len(data) THEN data[i] ELSE Hole]
WriteIno(f, ino, pos, chunk) ==
  [q \in DOMAIN f |->
     IF f[q].kind = "file" /\ f[q].ino = ino
       THEN [f[q] EXCEPT !.data = WriteAt(@, pos, chunk)]
       ELSE f[q]]

\* ----------------------------------------------------------- requests
Reqs == 1..MaxReq

\* The byte stream of the upload r, chunk by chunk.
Body(r) == [i \in 1..ChunksPerUpload |-> <<r, i>>]

Empty == <<>>
NameA == <<97, 46, 112, 100, 102>>                     \* "a.pdf"
NameB == <<98>>                                        \* "b"
NsName == <<110, 115>>                                 \* "ns"
SubName == <<115, 117, 98>>                            \* "sub"
TempName == <<116, 101, 109, 112>>                     \* "temp"
ImagesName == <<105, 109, 97, 103, 101, 115>>          \* "images"
DocumentsName == <<100, 111, 99, 117, 109, 101, 110, 116, 115>>  \* "documents"
OthersName == <<111, 116, 104, 101, 114, 115>>         \* "others"

\* What the clients send.
UploadFiles ==
  { [name |-> NameA, mimetype |-> "application/pdf"],
    [name |-> NameB, mimetype |-> "application/octet-stream"] }
UploadCategories == {Empty, ImagesName, TempName}
UploadNamespaces == {Empty, NsName}
\* The UTF-8 bytes of a name with two CJK characters and ".pdf", as the
\* multipart parser hands them over: one code unit per byte.
MojibakeName == <<230, 138, 165, 229, 145, 138, 46, 112, 100, 102>>
MojibakeFiles == { [name |-> MojibakeName, mimetype |-> "application/pdf"] }
DeleteInputs ==
  { [name |-> Empty, namespace |-> Empty, category |-> Empty, parentNamespace |-> Empty],
    [name |-> NameA, namespace |-> NsName, category |-> Empty, parentNamespace |-> Empty],
    [name |-> NameA, namespace |-> Empty, category |-> DocumentsName, parentNamespace |-> Empty],
    [name |-> NsName, namespace |-> Empty, category |-> Empty, parentNamespace |-> Empty],
    [name |-> SubName, namespace |-> Empty, category |-> Empty, parentNamespace |-> NsName] }
DirectoryInputs ==
  { [name |-> Empty, parentNamespace |-> Empty],
    [name |-> NsName, parentNamespace |-> Empty],
    [name |-> SubName, parentNamespace |-> NsName] }
FilesInputs ==
  { [namespace |-> Empty, category |-> Empty],
    [namespace |-> NsName, category |-> Empty],
    [namespace |-> Empty, category |-> TempName] }

VARIABLES
  fs,     \* the filesystem: path -> node
  clock,  \* Date.now(), in milliseconds since the server started
  req,    \* the requests: id -> the request's variables and its response
  limiter \* avatarUploadLimiter's store: client address -> requests counted

vars == <<fs, clock, req, limiter>>

\* The addresses requests come from.
IPs == {"ip1", "ip2"}

IdleReq ==
  [kind |-> "idle", pc |-> "idle",
   name |-> Empty, mimetype |-> "", category |-> Empty, namespace |-> Empty,
   parentNamespace |-> Empty,
   filename |-> Empty, staged |-> Empty, path |-> Empty, fd |-> 0, written |-> 0,
   finalDir |-> Empty,
   download |-> <<>>, disposition |-> "", contentType |-> "",
   token |-> "", oversize |-> FALSE,
   ip |-> "", customFilename |-> Empty, taken |-> FALSE,
   target |-> Empty, items |-> {},
   url |-> Empty, resCategory |-> Empty, resNamespace |-> Empty,
   status |-> 0, itemCount |-> 0, before |-> {}]

InFlight == {r \in Reqs : req[r].kind # "idle" /\ req[r].status = 0}
Finished == {r \in Reqs : req[r].status # 0}

\* A request is received: ids are given in the order of arrival.
CanStart(r) ==
  /\ req[r].kind = "idle"
  /\ \A q \in Reqs : q < r => req[q].kind # "idle"

\* The response is sent: res.status(code).json(...).
Respond(r, code) == [req[r] EXCEPT !.pc = "done", !.status = code]

Init ==
  /\ fs = MkdirP(MkdirP(<< >> :> DirNode, baseUploadDir), tempUploadDir)
  /\ clock = 0
  /\ limiter = [ip \in IPs |-> 0]
  /\ req = [r \in Reqs |-> IdleReq]

\* The wall clock advances.
Tick ==
  /\ clock < MaxClock
  /\ clock' = clock + 1
  /\ UNCHANGED <<fs, req, limiter>>

\* ------------------------------------------------------- POST /upload
\* A multipart request with a file part arrives and passes authenticateToken.
UploadStartInto(r, files, categories, namespaces, oversizes) ==
  /\ CanStart(r)
  /\ \E f \in files, c \in categories, n \in namespaces, o \in oversizes :
       req' = [req EXCEPT ![r] =
                 [IdleReq EXCEPT !.kind = "upload", !.token = "valid", !.pc = "destination",
                                 !.name = f.name, !.mimetype = f.mimetype,
                                 !.category = c, !.namespace = n,
                                 !.oversize = o,
                                 !.before = Finished]]
  /\ UNCHANGED <<fs, clock, limiter>>

UploadStartWith(r, files, oversizes) ==
  UploadStartInto(r, files, UploadCategories, UploadNamespaces, oversizes)

\* The uploads of the common case: the body is within limits.fileSize.
UploadStart(r) == UploadStartWith(r, UploadFiles, {FALSE})

\* A request without a file part: the handler answers 400 at once.
UploadNoFile(r) ==
  /\ CanStart(r)
  /\ req' = [req EXCEPT ![r] =
               [IdleReq EXCEPT !.kind = "upload", !.token = "valid", !.pc = "done",
                               !.status = 400,
                               !.before = Finished]]
  /\ UNCHANGED <<fs, clock, limiter>>

\* ensureDirectoryExists(dirPath): nothing when the path exists, else a
\* recursive mkdir, whose error is thrown on.
ensureDirectoryExistsOk(f, dirPath) == Exists(f, dirPath) \/ MkdirOk(f, dirPath)
ensureDirectoryExists(f, dirPath) ==
  IF Exists(f, dirPath) THEN f ELSE MkdirP(f, dirPath)

\* storage.destination: the temp directory, created when missing; an error
\* goes to the error middleware, which answers 500.
StorageDestination(r) ==
  /\ req[r].kind = "upload" /\ req[r].pc = "destination"
  /\ IF ensureDirectoryExistsOk(fs, tempUploadDir)
       THEN /\ fs' = ensureDirectoryExists(fs, tempUploadDir)
            /\ req' = [req EXCEPT ![r].pc = "filename"]
       ELSE /\ fs' = fs
            /\ req' = [req EXCEPT ![r] = Respond(r, 500)]
  /\ UNCHANGED <<clock, limiter>>

\* The name storage.filename gives the staged file: the repaired declared
\* name when the temp directory has no entry of that name, else the name
\* with "-<Date.now()>" before its extension.
StagingName(f, declared, now) ==
  LET originalName == fixFileNameEncoding(declared)
      ext == extname(originalName)
      nameWithoutExt == basename(originalName, ext) IN
  IF ~Exists(f, PathJoin(tempUploadDir, originalName))
    THEN originalName
    ELSE nameWithoutExt \o <<45>> \o DecStr(now) \o ext

\* storage.filename, and multer's path.join(destination, filename).
StorageFilename(r) ==
  /\ req[r].kind = "upload" /\ req[r].pc = "filename"
  /\ LET filename == StagingName(fs, req[r].name, clock)
         path == PathJoin(tempUploadDir, filename) IN
       req' = [req EXCEPT ![r].pc = "open", ![r].filename = filename,
                          ![r].staged = path, ![r].path = path]
  /\ UNCHANGED <<fs, clock, limiter>>

\* multer opens the write stream on the path its storage gave (both
\* upload routes use the disk storage); an error goes to the error
\* middleware.
StagingOpen(r) ==
  /\ req[r].kind \in {"upload", "avatar"} /\ req[r].pc = "open"
  /\ IF OpenOk(fs, req[r].path)
       THEN /\ fs' = OpenTruncate(fs, req[r].path, r)
            /\ req' = [req EXCEPT ![r].pc = "write",
                                  ![r].fd = OpenedIno(fs, req[r].path, r)]
       ELSE /\ fs' = fs
            /\ req' = [req EXCEPT ![r] = Respond(r, 500)]
  /\ UNCHANGED <<clock, limiter>>

\* The stream writes the next chunk of the body.
StagingWrite(r) ==
  /\ req[r].kind \in {"upload", "avatar"} /\ req[r].pc = "write"
  /\ req[r].written < ChunksPerUpload
  /\ fs' = WriteIno(fs, req[r].fd, req[r].written + 1, Body(r)[req[r].written + 1])
  /\ req' = [req EXCEPT ![r].written = @ + 1]
  /\ UNCHANGED <<clock, limiter>>

\* The directory the handler stores into.
FinalDir(r) ==
  getFullStoragePath(req[r].category, req[r].namespace, req[r].mimetype,
                     fixFileNameEncoding(req[r].name))

\* The stream finishes: multer sets req.file and calls the route's handler,
\* which runs up to its first await: POST /upload has resolved finalDir,
\* POST /upload/avatar has built its file name and asks whether it is taken.
StagingFinish(r) ==
  /\ req[r].kind \in {"upload", "avatar"} /\ req[r].pc = "write"
  /\ req[r].written = ChunksPerUpload /\ ~req[r].oversize
  /\ req' = [req EXCEPT
               ![r].pc = IF req[r].kind = "upload" THEN "ensure" ELSE "exists",
               ![r].fd = 0,
               ![r].finalDir = IF req[r].kind = "upload" THEN FinalDir(r)
                               ELSE avatarUploadDir]
  /\ UNCHANGED <<fs, clock, limiter>>

\* The body is longer than limits.fileSize, which the model puts at
\* ChunksPerUpload chunks: the parser cuts the stream there, multer removes
\* the file it wrote and passes LIMIT_FILE_SIZE to the error middleware,
\* which answers 413.  The handler is not called.
StagingLimit(r) ==
  /\ req[r].kind \in {"upload", "avatar"} /\ req[r].pc = "write"
  /\ req[r].written = ChunksPerUpload /\ req[r].oversize
  /\ fs' = IF UnlinkOk(fs, req[r].path) THEN Unlink(fs, req[r].path) ELSE fs
  /\ req' = [req EXCEPT ![r] = [Respond(r, 413) EXCEPT !.fd = 0]]
  /\ UNCHANGED <<clock, limiter>>

\* The handler, step 1: ensureDirectoryExists(finalDir).  ioError is a
\* failure of the mkdir call the filesystem state does not explain.
UploadEnsure(r) ==
  /\ req[r].kind = "upload" /\ req[r].pc = "ensure"
  /\ \E ioError \in BOOLEAN :
       IF /\ ensureDirectoryExistsOk(fs, req[r].finalDir)
          /\ ~(ioError /\ ~Exists(fs, req[r].finalDir))
         THEN /\ fs' = ensureDirectoryExists(fs, req[r].finalDir)
              /\ req' = [req EXCEPT ![r].pc = "rename"]
         ELSE /\ fs' = fs
              /\ req' = [req EXCEPT ![r].pc = "catch"]
  /\ UNCHANGED <<clock, limiter>>

\* A handler in which a statement after the move throws: req.file.path
\* already names the final path when the catch runs.
UploadRenameThenFail(r) ==
  /\ req[r].kind = "upload" /\ req[r].pc = "rename"
  /\ LET finalPath == PathJoin(req[r].finalDir, req[r].filename) IN
       IF RenameOk(fs, req[r].path, finalPath)
         THEN /\ fs' = Rename(fs, req[r].path, finalPath)
              /\ req' = [req EXCEPT ![r].pc = "catch", ![r].path = finalPath]
         ELSE /\ fs' = fs
              /\ req' = [req EXCEPT ![r].pc = "catch"]
  /\ UNCHANGED <<clock, limiter>>

\* Steps 4 and 5 of the handler: the url path behind "https://hanphone.top/"
\* and the category and namespace fields of the 200 response.  null is
\* written as the empty string, which no field of the response can be.
UploadResponse(r) ==
  LET category == req[r].category
      namespace == req[r].namespace
      detected == getFileCategory(req[r].mimetype, fixFileNameEncoding(req[r].name))
      urlDir == IF category # Empty THEN category
                ELSE IF namespace # Empty THEN namespace
                ELSE detected
      finalCategoryForResponse ==
                IF category # Empty THEN category
                ELSE IF namespace # Empty THEN Empty
                ELSE detected IN
  [Respond(r, 200) EXCEPT
     !.url = encodeURIComponent(urlDir) \o <<47>> \o encodeURIComponent(req[r].filename),
     !.resCategory = finalCategoryForResponse,
     !.resNamespace = namespace]

\* The handler, steps 2 to 5: the move into the final directory when the
\* final path differs from the staging path, then the response.  ioError is
\* a failure of the rename call the filesystem state does not explain.
UploadRename(r) ==
  /\ req[r].kind = "upload" /\ req[r].pc = "rename"
  /\ LET finalPath == PathJoin(req[r].finalDir, req[r].filename) IN
       \E ioError \in BOOLEAN :
         IF req[r].path = finalPath
           THEN /\ ~ioError
                /\ fs' = fs
                /\ req' = [req EXCEPT ![r] = UploadResponse(r)]
         ELSE IF RenameOk(fs, req[r].path, finalPath) /\ ~ioError
           THEN /\ fs' = Rename(fs, req[r].path, finalPath)
                /\ req' = [req EXCEPT ![r] = [UploadResponse(r) EXCEPT !.path = finalPath]]
           ELSE /\ fs' = fs
                /\ req' = [req EXCEPT ![r].pc = "catch"]
  /\ UNCHANGED <<clock, limiter>>

\* The handler's catch: unlink req.file.path, whose failure is only logged,
\* and answer 500.
UploadCatch(r) ==
  /\ req[r].kind = "upload" /\ req[r].pc = "catch"
  /\ fs' = IF UnlinkOk(fs, req[r].path) THEN Unlink(fs, req[r].path) ELSE fs
  /\ req' = [req EXCEPT ![r] = Respond(r, 500)]
  /\ UNCHANGED <<clock, limiter>>


\* ----------------------------------------------------- DELETE /delete
\* The path the handler deletes: under namespace, else category, else
\* parentNamespace, else the storage root.
DeleteTarget(name, namespace, category, parentNamespace) ==
  IF namespace # Empty THEN PathJoin(PathJoin(baseUploadDir, namespace), name)
  ELSE IF category # Empty THEN PathJoin(PathJoin(baseUploadDir, category), name)
  ELSE IF parentNamespace # Empty
    THEN PathJoin(PathJoin(baseUploadDir, parentNamespace), name)
  ELSE PathJoin(baseUploadDir, name)

\* The request arrives and passes authenticateToken; without a name the
\* handler answers 400 at once.
DeleteStartWith(r, inputs) ==
  /\ CanStart(r)
  /\ \E d \in inputs :
       LET started == [IdleReq EXCEPT !.kind = "delete", !.token = "valid",
                                      !.pc = "access",
                                      !.name = d.name, !.namespace = d.namespace,
                                      !.category = d.category,
                                      !.parentNamespace = d.parentNamespace,
                                      !.target = DeleteTarget(d.name, d.namespace,
                                                   d.category, d.parentNamespace),
                                      !.before = Finished] IN
       req' = [req EXCEPT ![r] =
                 IF d.name = Empty
                   THEN [started EXCEPT !.pc = "done", !.status = 400, !.target = Empty]
                   ELSE started]
  /\ UNCHANGED <<fs, clock, limiter>>

DeleteStart(r) == DeleteStartWith(r, DeleteInputs)

\* fileExists(targetPath): 404 when the target is missing.
DeleteAccess(r) ==
  /\ req[r].kind = "delete" /\ req[r].pc = "access"
  /\ req' = [req EXCEPT ![r] =
               IF Exists(fs, req[r].target) THEN [req[r] EXCEPT !.pc = "stat"]
               ELSE Respond(r, 404)]
  /\ UNCHANGED <<fs, clock, limiter>>

\* fs.stat(targetPath): throws when the target went away (caught: 500).
DeleteStat(r) ==
  /\ req[r].kind = "delete" /\ req[r].pc = "stat"
  /\ req' = [req EXCEPT ![r] =
               IF IsFile(fs, req[r].target) THEN [req[r] EXCEPT !.pc = "unlink"]
               ELSE IF IsDir(fs, req[r].target) THEN [req[r] EXCEPT !.pc = "readdir"]
               ELSE Respond(r, 500)]
  /\ UNCHANGED <<fs, clock, limiter>>

\* The file branch: fs.unlink(targetPath).
DeleteUnlink(r) ==
  /\ req[r].kind = "delete" /\ req[r].pc = "unlink"
  /\ IF UnlinkOk(fs, req[r].target)
       THEN /\ fs' = Unlink(fs, req[r].target)
            /\ req' = [req EXCEPT ![r] = Respond(r, 200)]
       ELSE /\ fs' = fs
            /\ req' = [req EXCEPT ![r] = Respond(r, 500)]
  /\ UNCHANGED <<clock, limiter>>

\* DeleteReaddir without the test of items.length: rmdir is always tried.
DeleteReaddirNoCheck(r) ==
  /\ req[r].kind = "delete" /\ req[r].pc = "readdir"
  /\ req' = [req EXCEPT ![r] =
               IF ~IsDir(fs, req[r].target) THEN Respond(r, 500)
               ELSE [req[r] EXCEPT !.pc = "rmdir"]]
  /\ UNCHANGED <<fs, clock, limiter>>

\* The directory branch: fs.readdir(targetPath); 400 with the number of
\* entries when there are any.
DeleteReaddir(r) ==
  /\ req[r].kind = "delete" /\ req[r].pc = "readdir"
  /\ LET items == Children(fs, req[r].target) IN
       req' = [req EXCEPT ![r] =
                 IF ~IsDir(fs, req[r].target) THEN Respond(r, 500)
                 ELSE IF Cardinality(items) > 0
                   THEN [Respond(r, 400) EXCEPT !.itemCount = Cardinality(items)]
                 ELSE [req[r] EXCEPT !.pc = "rmdir"]]
  /\ UNCHANGED <<fs, clock, limiter>>

\* The directory branch: fs.rmdir(targetPath).
DeleteRmdir(r) ==
  /\ req[r].kind = "delete" /\ req[r].pc = "rmdir"
  /\ IF RmdirOk(fs, req[r].target)
       THEN /\ fs' = Rmdir(fs, req[r].target)
            /\ req' = [req EXCEPT ![r] = Respond(r, 200)]
       ELSE /\ fs' = fs
            /\ req' = [req EXCEPT ![r] = Respond(r, 500)]
  /\ UNCHANGED <<clock, limiter>>

\* ---------------------------------------------------- POST /directory
\* The request arrives and passes authenticateToken; without a name the
\* handler answers 400 at once.
DirectoryStartWith(r, inputs) ==
  /\ CanStart(r)
  /\ \E d \in inputs :
       LET parentDir == IF d.parentNamespace # Empty
                          THEN PathJoin(baseUploadDir, d.parentNamespace)
                          ELSE baseUploadDir
           started == [IdleReq EXCEPT !.kind = "directory", !.token = "valid",
                                      !.pc = IF d.parentNamespace # Empty
                                               THEN "parent" ELSE "exists",
                                      !.name = d.name,
                                      !.parentNamespace = d.parentNamespace,
                                      !.target = PathJoin(parentDir, d.name),
                                      !.before = Finished] IN
       req' = [req EXCEPT ![r] =
                 IF d.name = Empty
                   THEN [started EXCEPT !.pc = "done", !.status = 400, !.target = Empty]
                   ELSE started]
  /\ UNCHANGED <<fs, clock, limiter>>

DirectoryStart(r) == DirectoryStartWith(r, DirectoryInputs)

\* fileExists(parentDir): 404 when the parent namespace is missing.
DirectoryParent(r) ==
  /\ req[r].kind = "directory" /\ req[r].pc = "parent"
  /\ req' = [req EXCEPT ![r] =
               IF Exists(fs, PathJoin(baseUploadDir, req[r].parentNamespace))
                 THEN [req[r] EXCEPT !.pc = "exists"]
                 ELSE Respond(r, 404)]
  /\ UNCHANGED <<fs, clock, limiter>>

\* DirectoryExists without the test: mkdir is always tried.
DirectoryExistsNoCheck(r) ==
  /\ req[r].kind = "directory" /\ req[r].pc = "exists"
  /\ req' = [req EXCEPT ![r].pc = "mkdir"]
  /\ UNCHANGED <<fs, clock, limiter>>

\* fileExists(newDirPath): 409 when the target is there.
DirectoryExists(r) ==
  /\ req[r].kind = "directory" /\ req[r].pc = "exists"
  /\ req' = [req EXCEPT ![r] =
               IF Exists(fs, req[r].target) THEN Respond(r, 409)
               ELSE [req[r] EXCEPT !.pc = "mkdir"]]
  /\ UNCHANGED <<fs, clock, limiter>>

\* fs.mkdir(newDirPath, {recursive: true}); an error is caught: 500.
DirectoryMkdir(r) ==
  /\ req[r].kind = "directory" /\ req[r].pc = "mkdir"
  /\ IF MkdirOk(fs, req[r].target)
       THEN /\ fs' = MkdirP(fs, req[r].target)
            /\ req' = [req EXCEPT ![r] = Respond(r, 200)]
       ELSE /\ fs' = fs
            /\ req' = [req EXCEPT ![r] = Respond(r, 500)]
  /\ UNCHANGED <<clock, limiter>>

\* ---------------------------------------------------------- GET /files
\* One entry of fs.readdir(dir, {withFileTypes: true}).
Dirents(f, dir) ==
  {[name |-> q[Len(q)], isDirectory |-> f[q].kind = "dir"] : q \in Children(f, dir)}

\* The request arrives: the storage root without parameters, else the
\* directory getFullStoragePath gives for them.  The route has no
\* middleware: whatever token the request carries, the handler runs.
FilesStartWith(r, tokens) ==
  /\ CanStart(r)
  /\ \E q \in FilesInputs, t \in tokens :
       req' = [req EXCEPT ![r] =
                 [IdleReq EXCEPT !.kind = "files", !.token = t,
                                 !.pc = IF q.namespace = Empty /\ q.category = Empty
                                          THEN "readdir" ELSE "access",
                                 !.namespace = q.namespace, !.category = q.category,
                                 !.target = IF q.namespace = Empty /\ q.category = Empty
                                              THEN baseUploadDir
                                              ELSE getFullStoragePath(q.category,
                                                     q.namespace, "", Empty),
                                 !.before = Finished]]
  /\ UNCHANGED <<fs, clock, limiter>>

FilesStart(r) == FilesStartWith(r, {"valid"})

\* fileExists(targetDir): 404 when the directory is missing.
FilesAccess(r) ==
  /\ req[r].kind = "files" /\ req[r].pc = "access"
  /\ req' = [req EXCEPT ![r] =
               IF Exists(fs, req[r].target) THEN [req[r] EXCEPT !.pc = "readdir"]
               ELSE Respond(r, 404)]
  /\ UNCHANGED <<fs, clock, limiter>>

\* fs.readdir(dir, {withFileTypes: true}); an error is caught: 500.
FilesReaddir(r) ==
  /\ req[r].kind = "files" /\ req[r].pc = "readdir"
  /\ req' = [req EXCEPT ![r] =
               IF IsDir(fs, req[r].target)
                 THEN [req[r] EXCEPT !.pc = "stat", !.items = Dirents(fs, req[r].target)]
                 ELSE Respond(r, 500)]
  /\ UNCHANGED <<fs, clock, limiter>>

\* The entries a listing answers with: the listing of the storage root
\* skips the entry named "temp".
ListedItems(r) ==
  IF req[r].namespace = Empty /\ req[r].category = Empty
    THEN {it \in req[r].items : it.name # TempName}
    ELSE req[r].items

\* fs.stat of the directory and of every listed entry, then the response;
\* a stat that fails is caught: 500.
FilesStat(r) ==
  /\ req[r].kind = "files" /\ req[r].pc = "stat"
  /\ req' = [req EXCEPT ![r] =
               IF /\ Exists(fs, req[r].target)
                  /\ \A it \in ListedItems(r) : Exists(fs, Append(req[r].target, it.name))
                 THEN [Respond(r, 200) EXCEPT !.items = ListedItems(r)]
                 ELSE [Respond(r, 500) EXCEPT !.items = {}]]
  /\ UNCHANGED <<fs, clock, limiter>>

\* ------------------------------------------------------ specification
Next ==
  \/ Tick
  \/ \E r \in Reqs :
       \/ UploadStart(r) \/ UploadNoFile(r)
       \/ StorageDestination(r) \/ StorageFilename(r)
       \/ StagingOpen(r) \/ StagingWrite(r) \/ StagingFinish(r)
       \/ UploadEnsure(r) \/ UploadRename(r) \/ UploadCatch(r)
       \/ DeleteStart(r) \/ DeleteAccess(r) \/ DeleteStat(r)
       \/ DeleteUnlink(r) \/ DeleteReaddir(r) \/ DeleteRmdir(r)
       \/ DirectoryStart(r) \/ DirectoryParent(r) \/ DirectoryExists(r)
       \/ DirectoryMkdir(r)
       \/ FilesStart(r) \/ FilesAccess(r) \/ FilesReaddir(r) \/ FilesStat(r)

\* The server under any interleaving of its requests.
Spec == Init /\ [][Next]_vars

\* The stores an earlier run of the server can have left under uploads/:
\* nothing, an empty namespace, and a namespace holding files that earlier
\* uploads (ids -1 and -2) committed, with or without an empty directory.
FreshStore == MkdirP(MkdirP(<< >> :> DirNode, baseUploadDir), tempUploadDir)
NsDir == PathJoin(baseUploadDir, NsName)
StoreWith(files, dirs) ==
  LET f0 == MkdirP(FreshStore, NsDir)
      paths == {PathJoin(NsDir, n) : n \in files \cup dirs} IN
  [q \in DOMAIN f0 \cup paths |->
     IF q \in DOMAIN f0 THEN f0[q]
     ELSE IF q = PathJoin(NsDir, NameA) THEN FileNode(-1, Body(-1))
     ELSE IF q = PathJoin(NsDir, NameB) THEN FileNode(-2, Body(-2))
     ELSE DirNode]
Stores ==
  { FreshStore, StoreWith({}, {}), StoreWith({NameA}, {}),
    StoreWith({NameA, NameB}, {}), StoreWith({NameA}, {SubName}) }

InitStored ==
  /\ fs \in Stores
  /\ clock = 0
  /\ limiter = [ip \in IPs |-> 0]
  /\ req = [r \in Reqs |-> IdleReq]

\* Uploads alone, each answered before the next one arrives, all within
\* one millisecond of the clock.
NextUploadSeq ==
  \E r \in Reqs :
    \/ InFlight = {} /\ UploadStart(r)
    \/ InFlight = {} /\ UploadNoFile(r)
    \/ StorageDestination(r) \/ StorageFilename(r)
    \/ StagingOpen(r) \/ StagingWrite(r) \/ StagingFinish(r)
    \/ UploadEnsure(r) \/ UploadRename(r) \/ UploadCatch(r)
SpecUploadSeq == InitStored /\ [][NextUploadSeq]_vars

\* DELETE /delete requests alone, under any interleaving, on a stored tree.
NextDelete ==
  \E r \in Reqs :
    \/ DeleteStart(r) \/ DeleteAccess(r) \/ DeleteStat(r)
    \/ DeleteUnlink(r) \/ DeleteReaddir(r) \/ DeleteRmdir(r)
SpecDelete == InitStored /\ [][NextDelete]_vars

\* POST /directory requests alone, under any interleaving, on a stored tree.
NextDirectory ==
  \E r \in Reqs :
    \/ DirectoryStart(r) \/ DirectoryParent(r) \/ DirectoryExists(r)
    \/ DirectoryMkdir(r)
SpecDirectory == InitStored /\ [][NextDirectory]_vars

\* ------------------------------------------------------------- claims
UnderTemp(p) == IsPrefix(tempUploadDir, p)
Succeeded(r) == req[r].kind = "upload" /\ req[r].status = 200
\* r1 was answered before r2 arrived.
Before(r1, r2) == r1 \in req[r2].before
Overlap(r1, r2) == r1 # r2 /\ ~Before(r1, r2) /\ ~Before(r2, r1)
                     /\ req[r1].kind # "idle" /\ req[r2].kind # "idle"
\* The request r takes a step.
Steps(r) == req'[r] # req[r]
\* The request r is answered in this step.
Answers(r) == req[r].status = 0 /\ req'[r].status # 0
FilesIn(f, dir) == {q \in Children(f, dir) : f[q].kind = "file"}

\* C1: N sequential successful uploads that declare the same filename and
\* resolve to the same directory, with no delete in between, return N
\* pairwise distinct stored filenames, and the directory then holds N files.
C1_SequentialUploadsDistinct ==
  \A r1, r2 \in Reqs :
    ( /\ Succeeded(r1) /\ Succeeded(r2) /\ Before(r1, r2)
      /\ req[r1].name = req[r2].name
      /\ FinalDir(r1) = FinalDir(r2)
      /\ \A q \in Reqs : req[q].kind = "delete" => Before(q, r1) \/ Before(r2, q) )
    => /\ req[r1].filename # req[r2].filename
       /\ (\A q \in Reqs : req[q].kind # "delete")
            => Cardinality(FilesIn(fs, FinalDir(r1))) >= 2

\* C2: once an upload has committed a file at a final path, no later step
\* of an upload replaces or alters the file at that path.
C2_CommittedFileUntouched ==
  [][ \A p \in DOMAIN fs :
        ( /\ IsFile(fs, p) /\ ~UnderTemp(p)
          /\ \E r \in Reqs : Succeeded(r) /\ req[r].path = p
          /\ \E r \in Reqs : req'[r].kind = "upload" /\ Steps(r) )
        => p \in DOMAIN fs' /\ fs'[p] = fs[p] ]_vars

\* C3: two overlapping uploads with the same declared name and the same
\* target directory never both report success for the same final filename.
C3_OneWriterPerFinalName ==
  \A r1, r2 \in Reqs :
    ( /\ Overlap(r1, r2) /\ Succeeded(r1) /\ Succeeded(r2)
      /\ req[r1].name = req[r2].name
      /\ FinalDir(r1) = FinalDir(r2) )
    => req[r1].filename # req[r2].filename

\* C4: when POST /upload answers 200, the staging path no longer exists, the
\* final path exists, and its content and size are those of the uploaded
\* byte stream.
C4_RoundTrip ==
  [][ \A r \in Reqs :
        (req'[r].kind = "upload" /\ Answers(r) /\ req'[r].status = 200)
        => LET finalPath == PathJoin(FinalDir(r), req[r].filename) IN
           /\ ~Exists(fs', req[r].staged)
           /\ IsFile(fs', finalPath)
           /\ fs'[finalPath].data = Body(r)
           /\ Len(fs'[finalPath].data) = req[r].written ]_vars

\* C5: when ensuring the target directory or moving the staging artifact
\* fails, the request answers 500, its staging artifact is gone from the
\* temp subtree, and nothing of the upload is in final storage.
C5_FailureLeavesNothing ==
  [][ \A r \in Reqs :
        (req[r].kind = "upload" /\ req[r].pc = "catch" /\ Answers(r))
        => /\ req'[r].status = 500
           /\ ~Exists(fs', req[r].staged)
           /\ \A p \in DOMAIN fs' :
                IsFile(fs', p) /\ ~UnderTemp(p)
                  => \A i \in 1..Len(fs'[p].data) : fs'[p].data[i][1] # r ]_vars

\* C6: the upload is stored under root/category when a category is supplied,
\* else under root/namespace when a namespace is supplied, else under
\* root/classify(mimeType, filename); with both supplied the category wins.
C6_ExpectedDir(r) ==
  IF req[r].category # Empty THEN PathJoin(baseUploadDir, req[r].category)
  ELSE IF req[r].namespace # Empty THEN PathJoin(baseUploadDir, req[r].namespace)
  ELSE PathJoin(baseUploadDir,
                getFileCategory(req[r].mimetype, fixFileNameEncoding(req[r].name)))
C6_CategoryThenNamespaceThenType ==
  [][ \A r \in Reqs :
        (req'[r].kind = "upload" /\ Answers(r) /\ req'[r].status = 200)
        => LET stored == PathJoin(C6_ExpectedDir(r), req[r].filename) IN
           /\ IsFile(fs', stored)
           /\ fs'[stored].data = Body(r)
           /\ \A p \in DOMAIN fs' :
                IsFile(fs', p) /\ fs'[p].ino = r => p = stored ]_vars
\* An upload that supplied both a category and a namespace was stored.
C6_Witness ==
  \E r \in Reqs :
    /\ Succeeded(r) /\ req[r].category = ImagesName /\ req[r].namespace = NsName
    /\ IsFile(fs, PathJoin(PathJoin(baseUploadDir, ImagesName), req[r].filename))

\* C7: DELETE /delete on a directory with k >= 1 entries answers 400 with
\* itemCount = k and changes nothing; on an empty directory it removes
\* exactly that directory.
C7_DirectoryDelete ==
  [][ \A r \in Reqs :
        (req[r].kind = "delete" /\ Steps(r) /\ IsDir(fs, req[r].target))
        => LET k == Cardinality(Children(fs, req[r].target)) IN
           IF k >= 1
             THEN /\ fs' = fs
                  /\ Answers(r) => req'[r].status = 400 /\ req'[r].itemCount = k
             ELSE \/ fs' = fs /\ ~Answers(r)
                  \/ /\ Answers(r) /\ req'[r].status = 200
                     /\ DOMAIN fs' = DOMAIN fs \ {req[r].target}
                     /\ \A p \in DOMAIN fs' : fs'[p] = fs[p] ]_vars
\* One request was refused on a directory of two entries, and another one
\* removed an empty directory.
C7_Witness ==
  \E r1, r2 \in Reqs :
    /\ req[r1].kind = "delete" /\ req[r1].status = 400 /\ req[r1].itemCount = 2
    /\ req[r1].target = NsDir /\ IsFile(fs, PathJoin(NsDir, NameA))
    /\ req[r2].kind = "delete" /\ req[r2].status = 200 /\ Before(r1, r2)
    /\ req[r2].target = PathJoin(NsDir, SubName) /\ ~Exists(fs, req[r2].target)

\* C8: POST /directory answers 409 and changes nothing when the target
\* exists, answers 404 and changes nothing when a parentNamespace is given
\* and missing, and otherwise creates the directory; the second of two
\* sequential requests for the same name is answered 409.
C8_CreateDirectory ==
  [][ /\ \A r \in Reqs :
           (req[r].kind = "directory" /\ Steps(r)) =>
             LET parentDir == PathJoin(baseUploadDir, req[r].parentNamespace) IN
             /\ (req[r].pc = "parent" /\ ~Exists(fs, parentDir))
                  => req'[r].status = 404 /\ fs' = fs
             /\ (req[r].pc = "exists" /\ Exists(fs, req[r].target))
                  => req'[r].status = 409 /\ fs' = fs
             /\ req'[r].status = 200
                  => /\ ~(req[r].parentNamespace # Empty /\ ~Exists(fs, parentDir))
                     /\ IsDir(fs', req[r].target)
                     /\ DOMAIN fs' = DOMAIN fs \cup {req[r].target}
                     /\ \A p \in DOMAIN fs : fs'[p] = fs[p]
             /\ Answers(r) => req'[r].status \in {200, 404, 409}
      /\ \A r1, r2 \in Reqs :
           ( /\ req'[r1].kind = "directory" /\ req'[r2].kind = "directory"
             /\ r1 \in req'[r2].before /\ req'[r1].status = 200
             /\ req'[r1].target = req'[r2].target /\ req'[r2].status # 0 )
           => req'[r2].status = 409 ]_vars
\* The same directory was asked for twice in a row: created, then refused.
C8_Witness ==
  \E r1, r2 \in Reqs :
    /\ req[r1].kind = "directory" /\ req[r2].kind = "directory"
    /\ Before(r1, r2) /\ req[r1].target = req[r2].target
    /\ req[r1].status = 200 /\ req[r2].status = 409
    /\ IsDir(fs, req[r1].target)

\* C9: no GET /files response, for the storage root or for any category or
\* namespace value, contains the temp directory or a staging artifact.
C9_TempNeverListed ==
  \A r \in Reqs :
    (req[r].kind = "files" /\ req[r].status = 200)
    => \A it \in req[r].items : ~UnderTemp(Append(req[r].target, it.name))

\* C10: a file visible at a final path outside the temp subtree is complete:
\* its content is the whole body of one finished upload.
C10_FinalFilesComplete ==
  \A p \in DOMAIN fs :
    IsFile(fs, p) /\ ~UnderTemp(p)
    => \E r \in Reqs \cup {-1, -2} : fs[p].data = Body(r)

\* ------------------------------------------------- the upload lifecycle
\* One step of the handler of the upload r, from its first await to the
\* response.
HandlerStep(r) == UploadEnsure(r) \/ UploadRename(r) \/ UploadCatch(r)

\* Uploads one after the other, where every awaited filesystem call of the
\* handler returns and the event loop runs its continuation.
SpecUploadFair ==
  InitStored /\ [][NextUploadSeq]_vars /\ \A r \in Reqs : WF_vars(HandlerStep(r))

\* The states of the spec's machine, read off the handler's position:
\* Staged once multer has set req.file, Resolving once the final directory
\* is resolved and ensured, Committed and Failed with the response.
ReachedStaged(r) ==
  /\ req[r].kind = "upload" /\ req[r].written = ChunksPerUpload
  /\ req[r].pc \in {"ensure", "rename", "catch", "done"}
Resolving(r) == req[r].kind = "upload" /\ req[r].pc = "rename"
Committed(r) == ReachedStaged(r) /\ req[r].status = 200
Failed(r) == ReachedStaged(r) /\ req[r].status = 500
\* The files of the temp subtree that the upload r created.
StagingArtifact(r) ==
  {p \in DOMAIN fs : UnderTemp(p) /\ IsFile(fs, p) /\ fs[p].ino = r}

\* C11, first part: every upload that reaches Staged eventually ends in
\* Committed or in Failed.
C11_Terminates ==
  \A r \in Reqs : ReachedStaged(r) ~> (Committed(r) \/ Failed(r))
\* C11, second part: a terminal upload stays as it is, and Committed is
\* entered from Resolving only.
C11_TerminalStable ==
  [][ \A r \in Reqs :
        /\ (Committed(r) \/ Failed(r)) => req'[r] = req[r]
        /\ (~Committed(r) /\ req'[r].kind = "upload" /\ req'[r].status = 200)
             => Resolving(r) ]_vars
\* C11, third part: a terminal upload has no staging artifact left in the
\* temp subtree.
C11_ArtifactGone ==
  [](\A r \in Reqs : (Committed(r) \/ Failed(r)) => StagingArtifact(r) = {})
\* C11: every upload that reaches Staged eventually ends in exactly one of
\* Committed or Failed and stays there, reaches Committed only through
\* Resolving, and once terminal has no staging artifact in the temp subtree.
C11_UploadLifecycle == C11_Terminates /\ C11_TerminalStable /\ C11_ArtifactGone

\* ------------------------------------------------ repaired declared names
\* Uploads of the mis-decoded name alone, one after the other.
NextUploadRepair ==
  \/ Tick
  \/ \E r \in Reqs :
       \/ InFlight = {} /\ UploadStartWith(r, MojibakeFiles, {FALSE})
       \/ StorageDestination(r) \/ StorageFilename(r)
       \/ StagingOpen(r) \/ StagingWrite(r) \/ StagingFinish(r)
       \/ UploadEnsure(r) \/ UploadRename(r) \/ UploadCatch(r)
SpecUploadRepair == InitStored /\ [][NextUploadRepair]_vars

\* The name the bytes of MojibakeName spell in UTF-8: U+62A5 U+544A ".pdf".
C12_RepairedName == <<25253, 21578, 46, 112, 100, 102>>
C12_DocumentsDir == PathJoin(baseUploadDir, DocumentsName)
C12_ScenarioA(r) ==
  /\ req[r].kind = "upload" /\ req[r].name = MojibakeName
  /\ req[r].mimetype = "application/pdf"
  /\ req[r].category = Empty /\ req[r].namespace = Empty
\* No entry of the repaired name in the staging or the documents directory.
C12_NameFree ==
  /\ ~Exists(fs, PathJoin(tempUploadDir, C12_RepairedName))
  /\ ~Exists(fs, PathJoin(C12_DocumentsDir, C12_RepairedName))

previewableExtensions ==
  {
    <<46, 106, 112, 103>>,  \* ".jpg"
    <<46, 106, 112, 101, 103>>,  \* ".jpeg"
    <<46, 112, 110, 103>>,  \* ".png"
    <<46, 103, 105, 102>>,  \* ".gif"
    <<46, 98, 109, 112>>,  \* ".bmp"
    <<46, 115, 118, 103>>,  \* ".svg"
    <<46, 119, 101, 98, 112>>,  \* ".webp"
    <<46, 97, 118, 105, 102>>,  \* ".avif"
    <<46, 97, 112, 110, 103>>,  \* ".apng"
    <<46, 112, 100, 102>>,  \* ".pdf"
    <<46, 109, 112, 51>>,  \* ".mp3"
    <<46, 119, 97, 118>>,  \* ".wav"
    <<46, 111, 103, 103>>,  \* ".ogg"
    <<46, 102, 108, 97, 99>>,  \* ".flac"
    <<46, 97, 97, 99>>,  \* ".aac"
    <<46, 109, 112, 52>>,  \* ".mp4"
    <<46, 119, 101, 98, 109>>,  \* ".webm"
    <<46, 111, 103, 103>>,  \* ".ogg"
    <<46, 109, 111, 118>>,  \* ".mov"
    <<46, 97, 118, 105>>,  \* ".avi"
    <<46, 109, 107, 118>>  \* ".mkv"
  }

\* mimeTypes of setHeaders: the Content-Type by extension.
mimeTypes ==
  {
    <<<<46, 106, 115, 111, 110>>, "application/json">>,  \* ".json"
    <<<<46, 112, 100, 102>>, "application/pdf">>,  \* ".pdf"
    <<<<46, 122, 105, 112>>, "application/zip">>,  \* ".zip"
    <<<<46, 116, 120, 116>>, "text/plain">>,  \* ".txt"
    <<<<46, 109, 100>>, "text/markdown">>,  \* ".md"
    <<<<46, 104, 116, 109, 108>>, "text/html">>,  \* ".html"
    <<<<46, 99, 115, 115>>, "text/css">>,  \* ".css"
    <<<<46, 106, 115>>, "application/javascript">>,  \* ".js"
    <<<<46, 112, 110, 103>>, "image/png">>,  \* ".png"
    <<<<46, 106, 112, 103>>, "image/jpeg">>,  \* ".jpg"
    <<<<46, 106, 112, 101, 103>>, "image/jpeg">>,  \* ".jpeg"
    <<<<46, 103, 105, 102>>, "image/gif">>,  \* ".gif"
    <<<<46, 115, 118, 103>>, "image/svg+xml">>,  \* ".svg"
    <<<<46, 119, 101, 98, 112>>, "image/webp">>,  \* ".webp"
    <<<<46, 98, 109, 112>>, "image/bmp">>,  \* ".bmp"
    <<<<46, 97, 118, 105, 102>>, "image/avif">>,  \* ".avif"
    <<<<46, 109, 112, 52>>, "video/mp4">>,  \* ".mp4"
    <<<<46, 97, 118, 105>>, "video/x-msvideo">>,  \* ".avi"
    <<<<46, 119, 101, 98, 109>>, "video/webm">>,  \* ".webm"
    <<<<46, 109, 111, 118>>, "video/quicktime">>,  \* ".mov"
    <<<<46, 109, 107, 118>>, "video/x-matroska">>,  \* ".mkv"
    <<<<46, 109, 112, 51>>, "audio/mpeg">>,  \* ".mp3"
    <<<<46, 119, 97, 118>>, "audio/wav">>,  \* ".wav"
    <<<<46, 111, 103, 103>>, "audio/ogg">>,  \* ".ogg"
    <<<<46, 102, 108, 97, 99>>, "audio/flac">>,  \* ".flac"
    <<<<46, 97, 97, 99>>, "audio/aac">>  \* ".aac"
  }

\* The query of a static GET: the values of its "download" parameters, in
\* the order of the URL.  searchParams.has is "there is one",
\* searchParams.get is the first.
isDownload(download) == Len(download) > 0 /\ Head(download) = <<49>>

\* ContentDisposition that ignores the query.
ContentDispositionByExtension(ext, download) ==
  IF ext \in previewableExtensions THEN "inline" ELSE "attachment"

\* The kind of Content-Disposition setHeaders sets for the extension ext.
ContentDisposition(ext, download) ==
  IF isDownload(download) THEN "attachment"
  ELSE IF ext \in previewableExtensions THEN "inline"
  ELSE "attachment"

\* The Content-Type setHeaders sets: that of the table, or none ("").
ContentType(ext) ==
  LET rows == {row \in mimeTypes : row[1] = ext} IN
  IF rows # {} THEN (CHOOSE row \in rows : TRUE)[2] ELSE ""

\* express.static sends the file through the send library, which fills in
\* Content-Type when setHeaders has set none: the type its database has for
\* the extension (".csv" is the entry the served files need), else
\* application/octet-stream.
SendTypes == { << <<46, 99, 115, 118>>, "text/csv; charset=utf-8" >> }
SendType(ext) ==
  LET rows == {row \in SendTypes : row[1] = ext} IN
  IF rows # {} THEN (CHOOSE row \in rows : TRUE)[2] ELSE "application/octet-stream"

\* A Content-Type header that is the table's entry, else the binary type.
ResponseContentTypeBinary(ext) ==
  IF ContentType(ext) # "" THEN ContentType(ext) ELSE "application/octet-stream"
\* The Content-Type header of the response.
ResponseContentType(ext) ==
  IF ContentType(ext) # "" THEN ContentType(ext) ELSE SendType(ext)

\* Files that earlier uploads into the namespace left: "p.png", "P.PNG",
\* "n.txt", "b" and "c.csv".
PngName == <<112, 46, 112, 110, 103>>
UpperPngName == <<80, 46, 80, 78, 71>>
TxtName == <<110, 46, 116, 120, 116>>
CsvName == <<99, 46, 99, 115, 118>>
ServedNames == <<PngName, UpperPngName, TxtName, NameB, CsvName>>
ServedStore ==
  LET f0 == MkdirP(FreshStore, NsDir)
      at(i) == PathJoin(NsDir, ServedNames[i])
      idx == DOMAIN ServedNames IN
  [q \in DOMAIN f0 \cup {at(i) : i \in idx} |->
     IF q \in DOMAIN f0 THEN f0[q]
     ELSE LET i == CHOOSE j \in idx : at(j) = q IN FileNode(0 - i, Body(0 - i))]

\* The URL paths and queries clients ask for: "<namespace>/<name>" for the
\* stored names, a missing name and the namespace itself.
StaticPaths ==
  {NsName \o <<47>> \o n :
     n \in {PngName, UpperPngName, TxtName, NameB, CsvName, NameA}}
    \cup {NsName}
StaticDownloads == { <<>>, << <<49>> >>, << <<48>> >> }

\* The file express.static looks for: the URL path is percent-decoded and
\* joined to the root.  (The paths asked for here hold no ".." and no
\* dotfile, which the send library refuses.)
StaticTarget(u) == PathJoin(baseUploadDir, decodeURIComponent(u))

\* A GET that no route matches reaches express.static.
StaticStartWith(r, paths, downloads) ==
  /\ CanStart(r)
  /\ \E u \in paths, d \in downloads :
       req' = [req EXCEPT ![r] =
                 [IdleReq EXCEPT !.kind = "static", !.pc = "stat", !.name = u,
                                 !.target = StaticTarget(u),
                                 !.download = d, !.before = Finished]]
  /\ UNCHANGED <<fs, clock, limiter>>

StaticStart(r) == StaticStartWith(r, StaticPaths, StaticDownloads)

\* express.static stats the path: a file is sent with the headers of
\* setHeaders, a directory is redirected to "<path>/", anything else falls
\* through to the 404 of the application.
StaticSend(r) ==
  /\ req[r].kind = "static" /\ req[r].pc = "stat"
  /\ LET ext == toLowerCase(extname(req[r].target[Len(req[r].target)])) IN
       req' = [req EXCEPT ![r] =
                 IF IsFile(fs, req[r].target)
                   THEN [Respond(r, 200) EXCEPT
                           !.contentType = ResponseContentType(ext),
                           !.disposition = ContentDisposition(ext, req[r].download)]
                 ELSE IF IsDir(fs, req[r].target) THEN Respond(r, 301)
                 ELSE Respond(r, 404)]
  /\ UNCHANGED <<fs, clock, limiter>>

InitServed ==
  /\ fs = ServedStore
  /\ clock = 0
  /\ limiter = [ip \in IPs |-> 0]
  /\ req = [r \in Reqs |-> IdleReq]
NextStatic == \E r \in Reqs : StaticStart(r) \/ StaticSend(r)
\* Static GETs alone, under any interleaving, on a store with files.
SpecStatic == InitServed /\ [][NextStatic]_vars

\* C13: every served file gets Content-Disposition attachment when the
\* request carries download=1 or the file's extension is not previewable,
\* and inline otherwise.
C13_Disposition ==
  \A r \in Reqs :
    (req[r].kind = "static" /\ req[r].status = 200)
    => LET ext == toLowerCase(extname(req[r].name)) IN
       req[r].disposition =
         IF req[r].download = << <<49>> >> \/ ext \notin previewableExtensions
           THEN "attachment" ELSE "inline"
\* The stored "p.png" was served inline without a query and as an
\* attachment with ?download=1.
C13_Witness ==
  \E r1, r2 \in Reqs :
    /\ req[r1].kind = "static" /\ req[r2].kind = "static"
    /\ req[r1].target = PathJoin(NsDir, PngName) /\ req[r2].target = req[r1].target
    /\ req[r1].status = 200 /\ req[r2].status = 200
    /\ req[r1].download = <<>> /\ req[r1].disposition = "inline"
    /\ req[r2].download = << <<49>> >> /\ req[r2].disposition = "attachment"

\* ------------------------------------------------- calls of the helpers
\* The (mimetype, filename) pairs getFileCategory is called with: known,
\* unknown and empty MIME types; "a.pdf", "A.PDF", "b", "x.zzz", ".pdf",
\* "a." and the empty name.
CallMimetypes == {"image/png", "x/unknown", ""}
UpperPdfName == <<65, 46, 80, 68, 70>>
UnknownExtName == <<120, 46, 122, 122, 122>>
DotPdfName == <<46, 112, 100, 102>>
TrailingDotName == <<97, 46>>
CallFilenames ==
  {NameA, UpperPdfName, NameB, UnknownExtName, DotPdfName, TrailingDotName,
   Empty}

\* A pending call of a helper with the arguments (mimetype, name).
PendingCall(mimetype, name) ==
  [IdleReq EXCEPT !.kind = "call", !.pc = "call", !.mimetype = mimetype, !.name = name]

\* getFileCategory(mimetype, filename) is called and returns.
CallGetFileCategory(r) ==
  /\ req[r].kind = "call" /\ req[r].pc = "call"
  /\ req' = [req EXCEPT ![r].pc = "returned",
                        ![r].category = getFileCategory(req[r].mimetype, req[r].name)]
  /\ UNCHANGED <<fs, clock, limiter>>

InitClassify ==
  /\ fs = FreshStore
  /\ clock = 0
  /\ limiter = [ip \in IPs |-> 0]
  /\ req \in [Reqs -> {PendingCall(m, n) : m \in CallMimetypes, n \in CallFilenames}]
NextClassify == \E r \in Reqs : CallGetFileCategory(r)
SpecClassify == InitClassify /\ [][NextClassify]_vars

C14_Categories ==
  { <<105, 109, 97, 103, 101, 115>>,                  \* "images"
    <<118, 105, 100, 101, 111, 115>>,                 \* "videos"
    <<97, 117, 100, 105, 111, 115>>,                  \* "audios"
    <<99, 111, 100, 101, 115>>,                       \* "codes"
    <<100, 111, 99, 117, 109, 101, 110, 116, 115>>,   \* "documents"
    <<97, 114, 99, 104, 105, 118, 101, 115>>,         \* "archives"
    <<102, 111, 110, 116, 115>>,                      \* "fonts"
    <<111, 116, 104, 101, 114, 115>> }                \* "others"
C14_KnownMime(m) == \E i \in 1..Len(fileCategories) : m \in fileCategories[i].types
C14_KnownExt(n) ==
  \E row \in extensionToCategory : row[1] = toLowerCase(extname(n))

\* C14: for every (mimeType, filename) pair, empty and unknown values
\* included, getFileCategory returns one of the eight categories, and
\* others when neither the MIME type nor the extension is in the tables.
C14_ClassifyTotal ==
  \A r \in Reqs :
    (req[r].kind = "call" /\ req[r].pc = "returned")
    => /\ req[r].category \in C14_Categories
       /\ (~C14_KnownMime(req[r].mimetype) /\ ~C14_KnownExt(req[r].name))
            => req[r].category = OthersName
\* An unknown pair and the empty pair were classified as others, and a
\* known MIME type as its category.
C14_Witness ==
  \E r1, r2 \in Reqs :
    /\ req[r1].pc = "returned" /\ req[r1].mimetype = "" /\ req[r1].name = Empty
    /\ req[r1].category = OthersName
    /\ req[r2].pc = "returned" /\ req[r2].mimetype = "x/unknown"
    /\ req[r2].name = UnknownExtName /\ req[r2].category = OthersName

\* The names fixFileNameEncoding is called with: the ASCII names, the
\* mis-decoded UTF-8 name, a Latin-1 name that is no UTF-8 ("e-acute.pdf"),
\* a name beyond Latin-1 (U+62A5) and a value that is not a string.
Latin1Name == <<233, 46, 112, 100, 102>>
WideName == <<25253>>
NotAString == <<-1>>
FixNames == CallFilenames \cup {MojibakeName, Latin1Name, WideName, NotAString}

\* fixFileNameEncoding(originalName) is called and returns.
CallFixFileNameEncoding(r) ==
  /\ req[r].kind = "call" /\ req[r].pc = "call"
  /\ req' = [req EXCEPT ![r].pc = "returned",
                        ![r].filename = fixFileNameEncoding(req[r].name)]
  /\ UNCHANGED <<fs, clock, limiter>>

InitFixName ==
  /\ fs = FreshStore
  /\ clock = 0
  /\ limiter = [ip \in IPs |-> 0]
  /\ req \in [Reqs -> {PendingCall("", n) : n \in FixNames}]
NextFixName == \E r \in Reqs : CallFixFileNameEncoding(r)
SpecFixName == InitFixName /\ [][NextFixName]_vars

C15_IsAscii(n) == \A i \in 1..Len(n) : n[i] >= 0 /\ n[i] <= 127

\* C15: fixFileNameEncoding returns to its caller for every argument, and
\* for every ASCII-only name it returns the name itself.
C15_NeverRaisesAsciiFixed ==
  [][ \A r \in Reqs :
        (req[r].kind = "call" /\ req[r].pc = "call" /\ Steps(r))
        => /\ req'[r].pc = "returned"
           /\ C15_IsAscii(req[r].name) => req'[r].filename = req[r].name ]_vars
\* An ASCII name came back as it was, and the call with a value that is
\* not a string returned as well.
C15_Witness ==
  \E r1, r2 \in Reqs :
    /\ req[r1].pc = "returned" /\ req[r1].name = NameA /\ req[r1].filename = NameA
    /\ req[r2].pc = "returned" /\ req[r2].name = NotAString

\* ------------------------------------------------------ authentication
\* What extractToken and verifyToken make of the request's headers: no
\* token, a token that does not verify, a token that verifies.
Tokens == {"missing", "invalid", "valid"}

\* authenticateToken: the status it answers with, 0 when it calls next().
authenticateToken(token) ==
  IF token = "missing" THEN 401 ELSE IF token = "invalid" THEN 403 ELSE 0

\* The routes registered with authenticateToken.
AuthenticatedRoutes == {"upload", "delete", "directory"}

\* A request to one of these routes without a valid token: the middleware
\* answers and the handler never runs.
AuthReject(r) ==
  /\ CanStart(r)
  /\ \E route \in AuthenticatedRoutes, t \in Tokens :
       /\ authenticateToken(t) # 0
       /\ req' = [req EXCEPT ![r] =
                    [IdleReq EXCEPT !.kind = route, !.token = t, !.pc = "done",
                                    !.status = authenticateToken(t),
                                    !.before = Finished]]
  /\ UNCHANGED <<fs, clock, limiter>>

NextAuth ==
  \E r \in Reqs :
    \/ AuthReject(r)
    \/ FilesStartWith(r, Tokens) \/ FilesAccess(r) \/ FilesReaddir(r) \/ FilesStat(r)
\* Requests with and without a valid token, on a stored tree.
SpecAuth == InitStored /\ [][NextAuth]_vars

\* C16: a request to POST /upload, DELETE /delete, POST /directory or
\* GET /files without a valid token is answered 401 (no token) or 403
\* (invalid token) as it arrives, changes no stored state and returns no
\* listing.
C16_NoTokenNoAction ==
  [][ \A r \in Reqs :
        (req'[r].kind \in {"upload", "delete", "directory", "files"}
           /\ req'[r].token # "valid")
        => /\ req'[r].status = IF req'[r].token = "missing" THEN 401 ELSE 403
           /\ req'[r].items = {}
           /\ Steps(r) => fs' = fs ]_vars

\* -------------------------------------------------- POST /upload/avatar
\* max of avatarUploadLimiter: the requests one address may make in a window.
AvatarMax == 5
\* The limiter refuses the request whose count passes max.
RateLimitedLate(totalHits) == totalHits > AvatarMax + 1
RateLimited(totalHits) == totalHits > AvatarMax

\* avatarFileFilter: the declared MIME type and the lower-cased extension of
\* the declared name must both be listed.
allowedMimetypes ==
  {"image/jpeg", "image/png", "image/gif", "image/webp", "image/avif",
   "image/svg+xml"}
allowedExtensions ==
  { <<46, 106, 112, 103>>, <<46, 106, 112, 101, 103>>, <<46, 112, 110, 103>>,
    <<46, 103, 105, 102>>, <<46, 119, 101, 98, 112>>, <<46, 97, 118, 105, 102>>,
    <<46, 115, 118, 103>> }
avatarFileFilter(originalname, mimetype) ==
  /\ mimetype \in allowedMimetypes
  /\ toLowerCase(extname(originalname)) \in allowedExtensions

\* What the clients send: an image, a PDF declared as an image, an image
\* declared as a PDF; no custom name, or " m.e".
AvatarFiles ==
  { [name |-> PngName, mimetype |-> "image/png"],
    [name |-> NameA, mimetype |-> "image/png"],
    [name |-> PngName, mimetype |-> "application/pdf"] }
CustomName == <<32, 109, 46, 101>>
AvatarCustomNames == {NotAString, CustomName}
\* The values Math.round(Math.random() * 1e9) takes in the model.
Randoms == {0, 1}

\* The request arrives at avatarUploadLimiter, which counts it and answers
\* 429 when the address has passed max; with no file part multer stores
\* nothing and the handler answers 400.
AvatarStartWith(r, ips, files, customs, hasFile) ==
  /\ CanStart(r)
  /\ \E ip \in ips, f \in files, c \in customs, h \in hasFile :
       /\ limiter[ip] < MaxHits
       /\ limiter' = [limiter EXCEPT ![ip] = @ + 1]
       /\ LET arrived == [IdleReq EXCEPT !.kind = "avatar", !.ip = ip,
                                         !.before = Finished] IN
          req' = [req EXCEPT ![r] =
                    IF RateLimited(limiter[ip] + 1)
                      THEN [arrived EXCEPT !.pc = "done", !.status = 429]
                    ELSE IF ~h
                      THEN [arrived EXCEPT !.pc = "done", !.status = 400]
                    ELSE [arrived EXCEPT !.pc = "filter", !.name = f.name,
                                         !.mimetype = f.mimetype,
                                         !.customFilename = c]]
  /\ UNCHANGED <<fs, clock>>

\* multer calls avatarFileFilter; its error goes to the error middleware,
\* which knows LIMIT_FILE_SIZE only and answers 500 to everything else.
AvatarFilter(r) ==
  /\ req[r].kind = "avatar" /\ req[r].pc = "filter"
  /\ req' = [req EXCEPT ![r] =
               IF avatarFileFilter(req[r].name, req[r].mimetype)
                 THEN [req[r] EXCEPT !.pc = "destination"]
                 ELSE Respond(r, 500)]
  /\ UNCHANGED <<fs, clock, limiter>>

\* avatarStorage.destination: the avatar directory, created when missing.
AvatarDestination(r) ==
  /\ req[r].kind = "avatar" /\ req[r].pc = "destination"
  /\ IF ensureDirectoryExistsOk(fs, avatarUploadDir)
       THEN /\ fs' = ensureDirectoryExists(fs, avatarUploadDir)
            /\ req' = [req EXCEPT ![r].pc = "filename"]
       ELSE /\ fs' = fs
            /\ req' = [req EXCEPT ![r] = Respond(r, 500)]
  /\ UNCHANGED <<clock, limiter>>

\* avatarStorage.filename: "avatar-<Date.now()>-<random><ext>", and
\* multer's path.join(destination, filename).
AvatarUniqueName(declared, now, random) ==
  <<97, 118, 97, 116, 97, 114, 45>> \o DecStr(now) \o <<45>> \o DecStr(random)
    \o extname(fixFileNameEncoding(declared))
AvatarFilename(r) ==
  /\ req[r].kind = "avatar" /\ req[r].pc = "filename"
  /\ \E random \in Randoms :
       LET filename == AvatarUniqueName(req[r].name, clock, random)
           path == PathJoin(avatarUploadDir, filename) IN
       req' = [req EXCEPT ![r].pc = "open", ![r].filename = filename,
                          ![r].staged = path, ![r].path = path]
  /\ UNCHANGED <<fs, clock, limiter>>

\* String.prototype.trim, and replace(/[^a-zA-Z0-9_-]/g, '_').
WhiteSpace ==
  {9, 10, 11, 12, 13, 32, 160, 5760, 8232, 8233, 8239, 8287, 12288, 65279}
    \cup 8192..8202
Trim(s) ==
  LET kept == {i \in 1..Len(s) : s[i] \notin WhiteSpace} IN
  IF kept = {} THEN <<>>
  ELSE SubSeq(s, CHOOSE i \in kept : \A j \in kept : i <= j, Max(kept))
SafeUnits == (48..57) \cup (65..90) \cup (97..122) \cup {95, 45}
\* A replace that changes nothing: the name is used as given.
SanitizeNothing(s) == s
Sanitize(s) == [i \in 1..Len(s) |-> IF s[i] \in SafeUnits THEN s[i] ELSE 95]

\* The handler's finalFilename before the test for a conflict: the custom
\* name when it is a non-blank string, else the repaired declared name,
\* cleaned, with the extension of the repaired declared name.
AvatarFinalFilename(declared, customFilename) ==
  LET fixedName == fixFileNameEncoding(declared)
      ext == extname(fixedName) IN
  IF IsString(customFilename) /\ Trim(customFilename) # <<>>
    THEN Sanitize(Trim(customFilename)) \o ext
    ELSE Sanitize(basename(fixedName, ext)) \o ext

\* The handler: fileExists(finalPath).
AvatarExists(r) ==
  /\ req[r].kind = "avatar" /\ req[r].pc = "exists"
  /\ LET finalFilename == AvatarFinalFilename(req[r].name, req[r].customFilename) IN
     req' = [req EXCEPT ![r].pc = "rename",
                        ![r].taken = Exists(fs, PathJoin(avatarUploadDir, finalFilename))]
  /\ UNCHANGED <<fs, clock, limiter>>

\* The handler: "-<Date.now()>" before the extension when the name was
\* taken, then fs.rename(req.file.path, finalFilePath) and the response.
AvatarRename(r) ==
  /\ req[r].kind = "avatar" /\ req[r].pc = "rename"
  /\ LET first == AvatarFinalFilename(req[r].name, req[r].customFilename)
         ext == extname(fixFileNameEncoding(req[r].name))
         finalFilename == IF req[r].taken
                            THEN basename(first, ext) \o <<45>> \o DecStr(clock) \o ext
                            ELSE first
         finalFilePath == PathJoin(avatarUploadDir, finalFilename) IN
     \E ioError \in BOOLEAN :
       IF ~ioError /\ RenameOk(fs, req[r].path, finalFilePath)
         THEN /\ fs' = Rename(fs, req[r].path, finalFilePath)
              /\ req' = [req EXCEPT ![r] = [Respond(r, 200) EXCEPT
                                              !.path = finalFilePath,
                                              !.filename = finalFilename]]
         ELSE /\ fs' = fs
              /\ req' = [req EXCEPT ![r].pc = "catch"]
  /\ UNCHANGED <<clock, limiter>>

\* The handler's catch: the stored file is unlinked, the answer is 500.
AvatarCatch(r) ==
  /\ req[r].kind = "avatar" /\ req[r].pc = "catch"
  /\ fs' = IF UnlinkOk(fs, req[r].path) THEN Unlink(fs, req[r].path) ELSE fs
  /\ req' = [req EXCEPT ![r] = Respond(r, 500)]
  /\ UNCHANGED <<clock, limiter>>

\* The server starts with the avatar directory in place.
InitAvatar ==
  /\ fs = MkdirP(FreshStore, avatarUploadDir)
  /\ clock = 0
  /\ limiter = [ip \in IPs |-> 0]
  /\ req = [r \in Reqs |-> IdleReq]

\* Avatar uploads from one address, under any interleaving.
NextAvatar ==
  \/ Tick
  \/ \E r \in Reqs :
       \/ AvatarStartWith(r, {"ip1"}, AvatarFiles, AvatarCustomNames, BOOLEAN)
       \/ AvatarFilter(r) \/ AvatarDestination(r) \/ AvatarFilename(r)
       \/ StagingOpen(r) \/ StagingWrite(r) \/ StagingFinish(r)
       \/ AvatarExists(r) \/ AvatarRename(r) \/ AvatarCatch(r)
SpecAvatar == InitAvatar /\ [][NextAvatar]_vars

\* C17: an avatar upload whose MIME type or extension is not in the allowed
\* lists is answered with 400, and no file is stored in the avatar
\* directory for it.
C17_BadTypeRejected ==
  [][ \A r \in Reqs :
        ( /\ req[r].kind = "avatar" /\ req[r].pc = "filter" /\ Steps(r)
          /\ ~avatarFileFilter(req[r].name, req[r].mimetype) )
        => /\ req'[r].status = 400
           /\ fs' = fs /\ req'[r].staged = Empty ]_vars

\* ------------------------------------------------ DELETE /delete, files
\* C18: DELETE /delete on an existing file removes exactly that file and
\* leaves every other file and directory as it was; on a target that does
\* not exist it answers 404, without a name it answers 400, and in both
\* cases the stored state is unchanged.
C18_DeleteFile ==
  [][ \A r \in Reqs :
        (req'[r].kind = "delete" /\ Steps(r)) =>
          /\ (req[r].pc = "unlink" /\ IsFile(fs, req[r].target))
               => /\ req'[r].status = 200
                  /\ DOMAIN fs' = DOMAIN fs \ {req[r].target}
                  /\ \A p \in DOMAIN fs' : fs'[p] = fs[p]
          /\ (req[r].pc = "access" /\ ~Exists(fs, req[r].target))
               => req'[r].status = 404 /\ fs' = fs
          /\ (req[r].kind = "idle" /\ req'[r].name = Empty)
               => req'[r].status = 400 /\ fs' = fs
          /\ req'[r].status \in {400, 404} => fs' = fs ]_vars
\* A file was deleted while its neighbour stayed, and the next request for
\* the same file was answered 404.
C18_Witness ==
  \E r1, r2 \in Reqs :
    /\ req[r1].kind = "delete" /\ req[r1].status = 200 /\ Before(r1, r2)
    /\ req[r1].target = PathJoin(NsDir, NameA) /\ ~Exists(fs, req[r1].target)
    /\ IsFile(fs, PathJoin(NsDir, NameB))
    /\ req[r2].kind = "delete" /\ req[r2].status = 404
    /\ req[r2].target = req[r1].target

\* ------------------------------------------------- avatarUploadLimiter
\* windowMs has passed since the address was first counted: its count
\* starts again.
LimiterReset ==
  /\ \E ip \in IPs : limiter[ip] > 0 /\ limiter' = [limiter EXCEPT ![ip] = 0]
  /\ UNCHANGED <<fs, clock, req>>

\* The answered requests are over: their variables are gone, and later
\* requests are numbered from the start again.
AvatarRelease ==
  /\ InFlight = {} /\ Finished # {}
  /\ req' = [r \in Reqs |-> IdleReq]
  /\ UNCHANGED <<fs, clock, limiter>>

\* Image uploads from two addresses, each over before the next arrives and
\* all within one millisecond of the clock, for as many windows as one likes.
NextAvatarLimit ==
  \/ LimiterReset
  \/ AvatarRelease
  \/ \E r \in Reqs :
       \/ InFlight = {} /\ Finished = {}
            /\ AvatarStartWith(r, IPs, {[name |-> PngName, mimetype |-> "image/png"]},
                               {NotAString}, {TRUE})
       \/ AvatarFilter(r) \/ AvatarDestination(r) \/ AvatarFilename(r)
       \/ StagingOpen(r) \/ StagingWrite(r) \/ StagingFinish(r)
       \/ AvatarExists(r) \/ AvatarRename(r) \/ AvatarCatch(r)
SpecAvatarLimit == InitAvatar /\ [][NextAvatarLimit]_vars

\* C19: the limiter counts every avatar request of an address since the
\* window began, the requests after the fifth are answered 429 as they
\* arrive, and a request answered 429 writes nothing.
C19_FivePerWindow ==
  [][ /\ \A r \in Reqs :
           /\ (req[r].kind = "idle" /\ req'[r].kind = "avatar") =>
                LET ip == req'[r].ip IN
                /\ limiter'[ip] = limiter[ip] + 1
                /\ limiter[ip] >= AvatarMax
                     => req'[r].status = 429 /\ req'[r].pc = "done" /\ fs' = fs
                /\ limiter[ip] < AvatarMax => req'[r].status # 429
           /\ req'[r].status = 429
                => /\ req'[r].staged = Empty /\ req'[r].written = 0
                   /\ Steps(r) => fs' = fs
      /\ \A ip \in IPs :
           limiter'[ip] # limiter[ip]
             => \/ limiter'[ip] = 0
                \/ \E r \in Reqs : /\ req[r].kind = "idle" /\ req'[r].kind = "avatar"
                                   /\ req'[r].ip = ip ]_vars
\* The sixth request of an address in a window was refused, after uploads
\* of the same window had stored an avatar.
C19_Witness ==
  \E r \in Reqs :
    /\ req[r].kind = "avatar" /\ req[r].status = 429
    /\ limiter[req[r].ip] = AvatarMax + 1
    /\ \E p \in Children(fs, avatarUploadDir) : IsFile(fs, p)

\* ------------------------------------------------------ limits.fileSize
\* Uploads of one declared name, within and beyond limits.fileSize, under
\* any interleaving, on a fresh store.
NextUploadLimit ==
  \/ Tick
  \/ \E r \in Reqs :
       \/ UploadStartWith(r, {[name |-> NameA, mimetype |-> "application/pdf"]},
                          BOOLEAN)
       \/ StorageDestination(r) \/ StorageFilename(r)
       \/ StagingOpen(r) \/ StagingWrite(r) \/ StagingFinish(r) \/ StagingLimit(r)
       \/ UploadEnsure(r) \/ UploadRename(r) \/ UploadCatch(r)
SpecUploadLimit == Init /\ [][NextUploadLimit]_vars

\* C20: an upload whose body exceeds the size limit is answered 413, the
\* handler's steps (ensure, move, cleanup) never run for it, and when it is
\* answered neither its staging path nor any file holding bytes of its body
\* exists, in the staging subtree or in final storage.
C20_OversizeRejected ==
  [][ \A r \in Reqs :
        (req[r].kind = "upload" /\ req[r].oversize /\ Steps(r))
        => /\ req'[r].pc \notin {"ensure", "rename", "catch"}
           /\ (req[r].pc = "write" /\ Answers(r))
                => /\ req'[r].status = 413
                   /\ ~Exists(fs', req[r].staged)
                   /\ \A p \in DOMAIN fs' :
                        IsFile(fs', p)
                          => \A i \in 1..Len(fs'[p].data) : fs'[p].data[i][1] # r ]_vars

\* ------------------------------------------------- names and staging
\* C21: when the repaired declared name is not in the resolved target
\* directory as the upload is committed, the file is stored under exactly
\* that name, whatever the temp directory holds.
C21_FreeNameKept ==
  [][ \A r \in Reqs :
        ( /\ req'[r].kind = "upload" /\ Answers(r) /\ req'[r].status = 200
          /\ ~Exists(fs, PathJoin(req[r].finalDir, fixFileNameEncoding(req[r].name))) )
        => /\ req'[r].filename = fixFileNameEncoding(req[r].name)
           /\ IsFile(fs', PathJoin(req[r].finalDir, fixFileNameEncoding(req[r].name)))
    ]_vars

\* C22: no two in-flight uploads are given the same staging path.
C22_StagingPathsDistinct ==
  \A r1, r2 \in Reqs :
    ( /\ r1 # r2
      /\ req[r1].kind = "upload" /\ req[r2].kind = "upload"
      /\ req[r1].status = 0 /\ req[r2].status = 0
      /\ req[r1].staged # Empty /\ req[r2].staged # Empty )
    => req[r1].staged # req[r2].staged

\* ---------------------------------------- DELETE /delete against uploads
\* Uploads of a.pdf into the namespace ns, and deletions of ns and of
\* ns/a.pdf, under any interleaving, starting with ns empty.
NextDeleteUpload ==
  \E r \in Reqs :
    \/ UploadStartInto(r, {[name |-> NameA, mimetype |-> "application/pdf"]},
                       {Empty}, {NsName}, {FALSE})
    \/ StorageDestination(r) \/ StorageFilename(r)
    \/ StagingOpen(r) \/ StagingWrite(r) \/ StagingFinish(r)
    \/ UploadEnsure(r) \/ UploadRename(r) \/ UploadCatch(r)
    \/ DeleteStartWith(r, {[name |-> NsName, namespace |-> Empty, category |-> Empty,
                            parentNamespace |-> Empty],
                           [name |-> NameA, namespace |-> NsName, category |-> Empty,
                            parentNamespace |-> Empty]})
    \/ DeleteAccess(r) \/ DeleteStat(r) \/ DeleteUnlink(r)
    \/ DeleteReaddir(r) \/ DeleteRmdir(r)
InitDeleteUpload ==
  /\ fs = StoreWith({}, {})
  /\ clock = 0
  /\ limiter = [ip \in IPs |-> 0]
  /\ req = [r \in Reqs |-> IdleReq]
SpecDeleteUpload == InitDeleteUpload /\ [][NextDeleteUpload]_vars

\* C23: no step removes a directory that has entries; a DELETE that found
\* the directory empty and comes to remove it after an upload has committed
\* a file into it fails, and the directory and the file stay.
C23_NonEmptyDirectoryStays ==
  [][ /\ \A p \in DOMAIN fs :
           (IsDir(fs, p) /\ Children(fs, p) # {})
             => /\ IsDir(fs', p)
                /\ \A r \in Reqs : (req[r].kind = "delete" /\ Steps(r))
                     => \A q \in Children(fs, p) : q \in DOMAIN fs' \/ q = req[r].target
      /\ \A r \in Reqs :
           ( /\ req[r].kind = "delete" /\ req[r].pc = "rmdir" /\ Steps(r)
             /\ IsDir(fs, req[r].target) /\ Children(fs, req[r].target) # {} )
           => fs' = fs /\ req'[r].status # 200 ]_vars
\* A DELETE of ns passed the emptiness test, an overlapping upload
\* committed ns/a.pdf, and the removal failed: both are still there.
C23_Witness ==
  \E rd, ru \in Reqs :
    /\ req[rd].kind = "delete" /\ req[rd].target = NsDir /\ req[rd].status = 500
    /\ req[ru].kind = "upload" /\ req[ru].status = 200 /\ Overlap(rd, ru)
    /\ IsDir(fs, NsDir) /\ IsFile(fs, req[ru].path) /\ Parent(req[ru].path) = NsDir

\* ------------------------------------------------ ensureDirectoryExists
\* The directories the callers ensure: temp, a namespace, a directory
\* below it, and a category directory.
EnsurePaths ==
  {tempUploadDir, NsDir, PathJoin(NsDir, SubName),
   PathJoin(baseUploadDir, DocumentsName)}

\* ensureDirectoryExists(dirPath) is called: fsExists(dirPath) is tested at
\* once; when the path is there the call returns, else fs.mkdir is issued.
EnsureCall(r) ==
  /\ CanStart(r)
  /\ \E dirPath \in EnsurePaths :
       req' = [req EXCEPT ![r] =
                 [IdleReq EXCEPT !.kind = "ensure", !.target = dirPath,
                                 !.taken = Exists(fs, dirPath),
                                 !.pc = IF Exists(fs, dirPath) THEN "returned"
                                        ELSE "mkdir",
                                 !.before = Finished]]
  /\ UNCHANGED <<fs, clock, limiter>>

\* fs.mkdir(dirPath, {recursive: true}) completes; its error is thrown on.
EnsureMkdir(r) ==
  /\ req[r].kind = "ensure" /\ req[r].pc = "mkdir"
  /\ IF MkdirOk(fs, req[r].target)
       THEN /\ fs' = MkdirP(fs, req[r].target)
            /\ req' = [req EXCEPT ![r].pc = "returned"]
       ELSE /\ fs' = fs
            /\ req' = [req EXCEPT ![r].pc = "thrown"]
  /\ UNCHANGED <<clock, limiter>>

NextEnsure == \E r \in Reqs : EnsureCall(r) \/ EnsureMkdir(r)
\* Concurrent calls of ensureDirectoryExists on a stored tree.
SpecEnsure == InitStored /\ [][NextEnsure]_vars

\* C24: of any number of concurrent calls of ensureDirectoryExists none
\* throws, when a call has returned its directory exists, and a call on a
\* directory that is there returns without touching it.
C24_EnsureIdempotent ==
  [][ \A r \in Reqs :
        (req'[r].kind = "ensure" /\ Steps(r))
        => /\ req'[r].pc # "thrown"
           /\ req'[r].pc = "returned" => IsDir(fs', req'[r].target)
           /\ \A p \in DOMAIN fs : p \in DOMAIN fs' /\ fs'[p] = fs[p] ]_vars
\* Two calls for the same missing directory both found it missing, both
\* issued mkdir and both returned.
C24_Witness ==
  \E r1, r2 \in Reqs :
    /\ r1 # r2 /\ req[r1].kind = "ensure" /\ req[r2].kind = "ensure"
    /\ req[r1].target = req[r2].target
    /\ ~req[r1].taken /\ ~req[r2].taken
    /\ req[r1].pc = "returned" /\ req[r2].pc = "returned"
    /\ IsDir(fs, req[r1].target)

\* ------------------------------------------- the order of classification
\* C25: a MIME type of the MIME table decides the category whatever the
\* extension is; the extension is used only for a MIME type that is not in
\* the table, and it is looked up without regard to case.
C25_MimeThenExtension ==
  /\ \A r \in Reqs :
       (req[r].kind = "call" /\ req[r].pc = "returned") =>
         IF C14_KnownMime(req[r].mimetype)
           THEN \E i \in 1..Len(fileCategories) :
                  /\ req[r].mimetype \in fileCategories[i].types
                  /\ req[r].category = fileCategories[i].category
         ELSE IF C14_KnownExt(req[r].name)
           THEN \E row \in extensionToCategory :
                  /\ row[1] = toLowerCase(extname(req[r].name))
                  /\ req[r].category = row[2]
         ELSE req[r].category = OthersName
  /\ \A r1, r2 \in Reqs :
       ( /\ req[r1].kind = "call" /\ req[r1].pc = "returned"
         /\ req[r2].kind = "call" /\ req[r2].pc = "returned"
         /\ req[r1].mimetype = req[r2].mimetype
         /\ toLowerCase(req[r1].name) = toLowerCase(req[r2].name) )
       => req[r1].category = req[r2].category
\* image/png with the name a.pdf was classified as images, and an unknown
\* MIME type with the name A.PDF as documents.
C25_Witness ==
  \E r1, r2 \in Reqs :
    /\ req[r1].pc = "returned" /\ req[r1].mimetype = "image/png"
    /\ req[r1].name = NameA /\ req[r1].category = ImagesName
    /\ req[r2].pc = "returned" /\ req[r2].mimetype = "x/unknown"
    /\ req[r2].name = UpperPdfName /\ req[r2].category = DocumentsName

\* ------------------------------------------------- names beyond repair
\* The bytes from position i on are well-formed UTF-8.
RECURSIVE C26_WellFormed(_, _)
C26_WellFormed(bytes, i) ==
  IF i > Len(bytes) THEN TRUE
  ELSE
    LET need == Utf8Need(bytes[i]) IN
    /\ need >= 0
    /\ i + need <= Len(bytes)
    /\ need >= 1 => /\ bytes[i + 1] >= Utf8Lower(bytes[i])
                    /\ bytes[i + 1] <= Utf8Upper(bytes[i])
    /\ \A k \in 2..need : IsCont(bytes[i + k])
    /\ C26_WellFormed(bytes, i + need + 1)

\* C26: when the bytes of a name read under the single-byte code page are
\* not valid UTF-8, fixFileNameEncoding returns the name it was given.
C26_UnrepairableUnchanged ==
  [][ \A r \in Reqs :
        ( /\ req[r].kind = "call" /\ req[r].pc = "call" /\ Steps(r)
          /\ IsString(req[r].name)
          /\ ~C26_WellFormed(Latin1Bytes(req[r].name), 1) )
        => req'[r].filename = req[r].name ]_vars

\* ------------------------------------------------------- Content-Type
C27_InTable(ext) == \E row \in mimeTypes : row[1] = ext
C27_Served(r) == req[r].kind = "static" /\ req[r].status = 200
C27_Ext(r) == toLowerCase(extname(req[r].target[Len(req[r].target)]))

\* C27, as stated: the Content-Type of a served file is the entry of the
\* static extension table for the file's extension, and the generic binary
\* type when the extension is not in the table.
C27_TableOrBinary ==
  \A r \in Reqs :
    C27_Served(r)
    => IF C27_InTable(C27_Ext(r))
         THEN <<C27_Ext(r), req[r].contentType>> \in mimeTypes
         ELSE req[r].contentType = "application/octet-stream"

\* C27, amended: the Content-Type of a served file is the entry of the
\* static extension table for the file's lower-cased extension; for an
\* extension that is not in the table setHeaders sets none and the header
\* is the one express.static derives itself, which is the generic binary
\* type only when it knows no type for the extension.
C27_TableOrLibrary ==
  \A r \in Reqs :
    C27_Served(r)
    => IF C27_InTable(C27_Ext(r))
         THEN <<C27_Ext(r), req[r].contentType>> \in mimeTypes
         ELSE /\ ContentType(C27_Ext(r)) = ""
              /\ req[r].contentType = SendType(C27_Ext(r))
\* P.PNG was served as image/png and c.csv as text/csv.
C27_Witness ==
  \E r1, r2 \in Reqs :
    /\ C27_Served(r1) /\ req[r1].target = PathJoin(NsDir, UpperPngName)
    /\ req[r1].contentType = "image/png"
    /\ C27_Served(r2) /\ req[r2].target = PathJoin(NsDir, CsvName)
    /\ req[r2].contentType = "text/csv; charset=utf-8"

\* C28: every successful upload adds exactly one file to final storage, in
\* exactly one directory: the step that answers 200 makes one path outside
\* temp/ appear, the file is the upload's, and it does not lie both under the
\* category directory and under the namespace directory of the request.
C28_NewFinalFiles ==
  {p \in DOMAIN fs' : IsFile(fs', p) /\ ~UnderTemp(p) /\ ~Exists(fs, p)}
C28_OneFileAdded ==
  [][ \A r \in Reqs :
        ( /\ req'[r].kind = "upload" /\ Answers(r) /\ req'[r].status = 200
          /\ ~IsPrefix(tempUploadDir, req[r].finalDir) )
        => /\ C28_NewFinalFiles = {PathJoin(req[r].finalDir, req[r].filename)}
           /\ ~( /\ req[r].category # Empty /\ req[r].namespace # Empty
                 /\ Exists(fs', PathJoin(PathJoin(baseUploadDir, req[r].category),
                                         req[r].filename))
                 /\ Exists(fs', PathJoin(PathJoin(baseUploadDir, req[r].namespace),
                                         req[r].filename)) ) ]_vars

\* ------------------------------------- DELETE /delete of an uploaded file
\* What a client that got a 200 from POST /upload sends to DELETE /delete:
\* the category and the namespace of its upload and the returned filename.
UploadedInputs ==
  { [name |-> req[q].filename, namespace |-> req[q].namespace,
     category |-> req[q].category, parentNamespace |-> Empty] :
    q \in {u \in Reqs : Succeeded(u)} }

\* Uploads of a.pdf with and without a category and a namespace, and
\* deletions of what was uploaded, each request answered before the next.
NextUploadDelete ==
  \E r \in Reqs :
    \/ InFlight = {}
         /\ UploadStartInto(r, {[name |-> NameA, mimetype |-> "application/pdf"]},
                            {Empty, ImagesName}, {Empty, NsName}, {FALSE})
    \/ StorageDestination(r) \/ StorageFilename(r)
    \/ StagingOpen(r) \/ StagingWrite(r) \/ StagingFinish(r)
    \/ UploadEnsure(r) \/ UploadRename(r) \/ UploadCatch(r)
    \/ InFlight = {} /\ DeleteStartWith(r, UploadedInputs)
    \/ DeleteAccess(r) \/ DeleteStat(r) \/ DeleteUnlink(r)
SpecUploadDelete == Init /\ [][NextUploadDelete]_vars

\* C29: DELETE /delete resolves a (category, namespace) pair to the directory
\* POST /upload stores into for that pair: when the only requests are a
\* successful upload with a category or a namespace and a later DELETE with
\* the same category, the same namespace and the returned filename, the
\* DELETE looks at the path the upload committed, answers 200 and the file
\* is gone.
C29_DeleteFindsUpload ==
  \A q, r \in Reqs :
    ( /\ Succeeded(q) /\ req[r].kind = "delete" /\ req[r].status # 0
      /\ Before(q, r)
      /\ req[q].category # Empty \/ req[q].namespace # Empty
      /\ req[r].name = req[q].filename
      /\ req[r].category = req[q].category
      /\ req[r].namespace = req[q].namespace
      /\ \A o \in Reqs \ {q, r} : req[o].kind = "idle" )
    => /\ req[r].target = req[q].path
       /\ req[r].status = 200
       /\ ~Exists(fs, req[q].path)

DotDotName == <<46, 46>>                               \* ".."
OutsideName == <<46, 46, 47, 111, 117, 116>>           \* "../out"
OutName == <<111, 117, 116>>                           \* "out"

\* Requests whose category, namespace, parentNamespace or name holds "..",
\* each answered before the next arrives, on a fresh store.
NextTraversal ==
  \E r \in Reqs :
    \/ InFlight = {}
         /\ UploadStartInto(r, {[name |-> NameA, mimetype |-> "application/pdf"]},
                            {Empty, DotDotName}, {Empty, DotDotName}, {FALSE})
    \/ StorageDestination(r) \/ StorageFilename(r)
    \/ StagingOpen(r) \/ StagingWrite(r) \/ StagingFinish(r)
    \/ UploadEnsure(r) \/ UploadRename(r) \/ UploadCatch(r)
    \/ InFlight = {}
         /\ DirectoryStartWith(r, {[name |-> OutsideName, parentNamespace |-> Empty],
                                   [name |-> OutName, parentNamespace |-> DotDotName]})
    \/ DirectoryParent(r) \/ DirectoryExists(r) \/ DirectoryMkdir(r)
    \/ InFlight = {}
         /\ DeleteStartWith(r, {[name |-> OutsideName, namespace |-> Empty,
                                 category |-> Empty, parentNamespace |-> Empty],
                                [name |-> NameA, namespace |-> DotDotName,
                                 category |-> Empty, parentNamespace |-> Empty],
                                [name |-> OutName, namespace |-> Empty,
                                 category |-> Empty, parentNamespace |-> DotDotName]})
    \/ DeleteAccess(r) \/ DeleteStat(r) \/ DeleteUnlink(r)
    \/ DeleteReaddir(r) \/ DeleteRmdir(r)
SpecTraversal == Init /\ [][NextTraversal]_vars

\* C31: every path a step of POST /upload, POST /directory or DELETE /delete
\* creates, writes or removes lies strictly inside the storage root, also
\* for parameters that hold "..".
C31_InsideRoot ==
  [][ \A p \in DOMAIN fs \cup DOMAIN fs' :
        (~Exists(fs, p) \/ ~Exists(fs', p) \/ fs'[p] # fs[p])
          => IsPrefix(baseUploadDir, p) /\ p # baseUploadDir ]_vars

\* ------------------------------------------------------------ GET /file
\* The request arrives (the route has no authenticateToken): 400 without a
\* filename or without both namespace and category, else the file is looked
\* for in the directory getFullStoragePath gives.
FileStartWith(r, inputs) ==
  /\ CanStart(r)
  /\ \E q \in inputs :
       LET started == [IdleReq EXCEPT !.kind = "file", !.pc = "access",
                                      !.filename = q.filename,
                                      !.namespace = q.namespace,
                                      !.category = q.category,
                                      !.target = PathJoin(getFullStoragePath(q.category,
                                                            q.namespace, "", Empty),
                                                          q.filename),
                                      !.before = Finished] IN
       req' = [req EXCEPT ![r] =
                 IF q.filename = Empty \/ (q.namespace = Empty /\ q.category = Empty)
                   THEN [started EXCEPT !.pc = "done", !.status = 400, !.target = Empty]
                   ELSE started]
  /\ UNCHANGED <<fs, clock, limiter>>

\* fileExists(filePath): 404 when the file is missing.
FileAccess(r) ==
  /\ req[r].kind = "file" /\ req[r].pc = "access"
  /\ req' = [req EXCEPT ![r] =
               IF Exists(fs, req[r].target) THEN [req[r] EXCEPT !.pc = "stat"]
               ELSE Respond(r, 404)]
  /\ UNCHANGED <<fs, clock, limiter>>

\* fs.stat(filePath) and the response: the url names the namespace when one
\* was given, else the category; a stat that fails is answered 500.
FileStat(r) ==
  /\ req[r].kind = "file" /\ req[r].pc = "stat"
  /\ LET urlDir == IF req[r].namespace # Empty THEN req[r].namespace
                   ELSE req[r].category IN
       req' = [req EXCEPT ![r] =
                 IF Exists(fs, req[r].target)
                   THEN [Respond(r, 200) EXCEPT
                           !.url = encodeURIComponent(urlDir) \o <<47>>
                                     \o encodeURIComponent(req[r].filename),
                           !.resCategory = getFileCategory("", req[r].filename),
                           !.resNamespace = req[r].namespace]
                   ELSE Respond(r, 500)]
  /\ UNCHANGED <<fs, clock, limiter>>

\* What a client asks GET /file about after a 200 from POST /upload: the
\* returned filename with the category and the namespace of the upload.
UploadedFiles ==
  { [filename |-> req[q].filename, namespace |-> req[q].namespace,
     category |-> req[q].category] : q \in {u \in Reqs : Succeeded(u)} }
\* The url paths earlier responses returned.
ReturnedUrls == {req[q].url : q \in {u \in Reqs : req[u].url # Empty}}

\* "a b.pdf": a name encodeURIComponent changes.
SpaceName == <<97, 32, 98, 46, 112, 100, 102>>

\* Uploads with and without a category and a namespace, GET /file for what
\* was uploaded and static GETs of the returned urls, each request answered
\* before the next arrives.
NextUrl ==
  \E r \in Reqs :
    \/ InFlight = {}
         /\ UploadStartInto(r, {[name |-> NameA, mimetype |-> "application/pdf"],
                                [name |-> SpaceName, mimetype |-> "application/pdf"],
                                [name |-> MojibakeName, mimetype |-> "image/png"]},
                            {Empty, ImagesName}, {Empty, NsName}, {FALSE})
    \/ StorageDestination(r) \/ StorageFilename(r)
    \/ StagingOpen(r) \/ StagingWrite(r) \/ StagingFinish(r)
    \/ UploadEnsure(r) \/ UploadRename(r) \/ UploadCatch(r)
    \/ InFlight = {} /\ FileStartWith(r, UploadedFiles)
    \/ FileAccess(r) \/ FileStat(r)
    \/ InFlight = {} /\ StaticStartWith(r, ReturnedUrls, {<<>>})
    \/ StaticSend(r)
SpecUrl == Init /\ [][NextUrl]_vars

\* C32: the url of a 200 response names the place of the file: through the
\* static route the url of POST /upload resolves to the path the upload
\* committed, and the url of GET /file to the path whose metadata was read.
C32_UrlNamesFile ==
  \A r \in Reqs :
    /\ Succeeded(r) => StaticTarget(req[r].url) = req[r].path
    /\ (req[r].kind = "file" /\ req[r].status = 200)
         => StaticTarget(req[r].url) = req[r].target

\* C33: in a 200 response of POST /upload at most one of the fields category
\* and namespace is non-null, and the non-null one names the directory under
\* the storage root that holds the stored file.
C33_OneAxisInResponse ==
  \A r \in Reqs :
    Succeeded(r) =>
      /\ ~(req[r].resCategory # Empty /\ req[r].resNamespace # Empty)
      /\ req[r].resCategory # Empty
           => Parent(req[r].path) = PathJoin(baseUploadDir, req[r].resCategory)
      /\ req[r].resNamespace # Empty
           => Parent(req[r].path) = PathJoin(baseUploadDir, req[r].resNamespace)

\* C34: of two overlapping POST /directory requests for the same name under
\* the same existing parent, at most one answers 200 and the other answers
\* 409.
C34_OneCreatorPerDirectory ==
  \A r1, r2 \in Reqs :
    ( /\ req[r1].kind = "directory" /\ req[r2].kind = "directory"
      /\ Overlap(r1, r2)
      /\ req[r1].name # Empty /\ req[r1].target = req[r2].target
      /\ req[r1].status \notin {0, 404} /\ req[r2].status \notin {0, 404} )
    => /\ ~(req[r1].status = 200 /\ req[r2].status = 200)
       /\ req[r1].status = 409 \/ req[r2].status = 409

\* ------------------------------------- DELETE /delete against staging
\* Uploads of a.pdf into the namespace ns, and deletions that name the temp
\* directory or temp/a.pdf, under any interleaving, on a fresh store.
NextDeleteStaging ==
  \E r \in Reqs :
    \/ UploadStartInto(r, {[name |-> NameA, mimetype |-> "application/pdf"]},
                       {Empty}, {NsName}, {FALSE})
    \/ StorageDestination(r) \/ StorageFilename(r)
    \/ StagingOpen(r) \/ StagingWrite(r) \/ StagingFinish(r)
    \/ UploadEnsure(r) \/ UploadRename(r) \/ UploadCatch(r)
    \/ DeleteStartWith(r, {[name |-> NameA, namespace |-> Empty, category |-> TempName,
                            parentNamespace |-> Empty],
                           [name |-> TempName, namespace |-> Empty, category |-> Empty,
                            parentNamespace |-> Empty]})
    \/ DeleteAccess(r) \/ DeleteStat(r) \/ DeleteUnlink(r)
    \/ DeleteReaddir(r) \/ DeleteRmdir(r)
SpecDeleteStaging == Init /\ [][NextDeleteStaging]_vars

\* C35: no step of a DELETE /delete request removes a file inside the temp
\* directory, and an upload whose staging file is written out is not
\* left without it by a step of a DELETE.
C35_DeleteSparesStaging ==
  [][ \A r \in Reqs :
        (req[r].kind = "delete" /\ Steps(r))
        => /\ \A p \in DOMAIN fs : (UnderTemp(p) /\ IsFile(fs, p)) => p \in DOMAIN fs'
           /\ \A u \in Reqs :
                (req[u].kind = "upload" /\ req[u].pc \in {"ensure", "rename"}
                   /\ Exists(fs, req[u].path))
                => Exists(fs', req[u].path) ]_vars

\* --------------------------------------- GET /files against changes
\* Listings, uploads of a.pdf into the namespace ns and deletions of
\* ns/a.pdf, under any interleaving, on a stored tree.
NextFilesRace ==
  \E r \in Reqs :
    \/ FilesStart(r) \/ FilesAccess(r) \/ FilesReaddir(r) \/ FilesStat(r)
    \/ UploadStartInto(r, {[name |-> NameA, mimetype |-> "application/pdf"]},
                       {Empty}, {NsName}, {FALSE})
    \/ StorageDestination(r) \/ StorageFilename(r)
    \/ StagingOpen(r) \/ StagingWrite(r) \/ StagingFinish(r)
    \/ UploadEnsure(r) \/ UploadRename(r) \/ UploadCatch(r)
    \/ DeleteStartWith(r, {[name |-> NameA, namespace |-> NsName, category |-> Empty,
                            parentNamespace |-> Empty]})
    \/ DeleteAccess(r) \/ DeleteStat(r) \/ DeleteUnlink(r)
SpecFilesRace == InitStored /\ [][NextFilesRace]_vars

\* C36: a GET /files whose directory is there when the handler reads it and
\* when it answers is answered 200, whatever uploads and deletes of entries
\* of the directory run beside it.
C36_ListingSurvivesChanges ==
  [][ \A r \in Reqs :
        ( /\ req[r].kind = "files" /\ req[r].pc \in {"readdir", "stat"}
          /\ Answers(r) /\ IsDir(fs, req[r].target) )
        => req'[r].status = 200 ]_vars

\* ------------------------------------------------ POST /upload/avatar
\* C37: a successful POST /upload/avatar overwrites no avatar: the step that
\* answers 200 stores the file under a name that was free, and every other
\* file of the avatar directory keeps its content.
C37_AvatarNeverOverwritten ==
  [][ \A r \in Reqs :
        (req[r].kind = "avatar" /\ Answers(r) /\ req'[r].status = 200)
        => /\ ~Exists(fs, req'[r].path)
           /\ \A p \in DOMAIN fs :
                (IsFile(fs, p) /\ Parent(p) = avatarUploadDir /\ p # req[r].staged)
                => p \in DOMAIN fs' /\ fs'[p] = fs[p] ]_vars

\* "a b.png" and the custom filename "../x".
SpacePngName == <<97, 32, 98, 46, 112, 110, 103>>
TraversalCustomName == <<46, 46, 47, 120>>

\* Image uploads with and without a custom filename, among them names with
\* blanks, dots and path separators, each answered before the next arrives,
\* all within one millisecond of the clock.
NextAvatarName ==
  \E r \in Reqs :
    \/ InFlight = {}
         /\ AvatarStartWith(r, {"ip1"},
                            {[name |-> PngName, mimetype |-> "image/png"],
                             [name |-> SpacePngName, mimetype |-> "image/png"]},
                            {NotAString, CustomName, TraversalCustomName}, {TRUE})
    \/ AvatarFilter(r) \/ AvatarDestination(r) \/ AvatarFilename(r)
    \/ StagingOpen(r) \/ StagingWrite(r) \/ StagingFinish(r)
    \/ AvatarExists(r) \/ AvatarRename(r) \/ AvatarCatch(r)
SpecAvatarName == InitAvatar /\ [][NextAvatarName]_vars

\* C38: the file of a successful POST /upload/avatar lies directly in the
\* avatar directory, its name is a stem followed by the extension of the
\* repaired declared name, and the stem holds only a-z, A-Z, 0-9, "_", "-".
C38_Allowed == (97..122) \cup (65..90) \cup (48..57) \cup {95, 45}
C38_SafeAvatarName ==
  [][ \A r \in Reqs :
        (req[r].kind = "avatar" /\ Answers(r) /\ req'[r].status = 200)
        => LET name == req'[r].filename
               ext == extname(fixFileNameEncoding(req[r].name))
               stem == SubSeq(name, 1, Len(name) - Len(ext)) IN
           /\ req'[r].path = Append(avatarUploadDir, name)
           /\ IsFile(fs', req'[r].path)
           /\ fs'[req'[r].path].data = Body(r)
           /\ Len(name) > Len(ext) /\ name = stem \o ext
           /\ \A i \in 1..Len(stem) : stem[i] \in C38_Allowed ]_vars
\* The custom filename "../x" was stored as "___x.png" in the avatar
\* directory, and "a b.png" without a custom filename as "a_b.png".
C38_Witness ==
  \E r1, r2 \in Reqs :
    /\ req[r1].kind = "avatar" /\ req[r1].status = 200
    /\ req[r1].customFilename = TraversalCustomName
    /\ req[r1].filename = <<95, 95, 95, 120, 46, 112, 110, 103>>
    /\ IsFile(fs, Append(avatarUploadDir, req[r1].filename))
    /\ req[r2].kind = "avatar" /\ req[r2].status = 200
    /\ req[r2].customFilename = NotAString /\ req[r2].name = SpacePngName
    /\ req[r2].filename = <<97, 95, 98, 46, 112, 110, 103>>
    /\ IsFile(fs, Append(avatarUploadDir, req[r2].filename))
====
